---- MODULE Spec2Model ----
(***************************************************************************)
(* Model of the chat side of the Claude Code Assistant extension           *)
(* (class ClaudeCodeAssistant and class ClaudeAPI): the attachment store   *)
(* (attachedFiles, attachedImages, currentActiveFile), the chat panel      *)
(* reference, the handlers of the webview commands and of the editor's     *)
(* focus-change event, and the chat requests in flight.                    *)
(*                                                                         *)
(* The host editor dispatches one event at a time and a handler runs to    *)
(* its next await, so an action is one handler run from an event (or from  *)
(* the resolution of what it awaited) to its next await or its return.     *)
(***************************************************************************)
EXTENDS Integers, Sequences, FiniteSets, TLC

(***************************************************************************)
(* Bounds of the model.                                                    *)
(***************************************************************************)
\* handleFileAttachment runs that may wait on their dialog at the same time
MaxFileDialogs == 2
\* handleImageAttachment runs that may wait on their dialog at the same time
MaxImageDialogs == 2
\* chat requests that may be in flight at the same time
MaxInFlight == 2
\* webview panels created in one run
MaxPanels == 2
\* explain / optimize / comment / debug requests that may be in flight at the same time
MaxPrompts == 1
\* probes of refreshModels and of the key changer that may be in flight at the same time
MaxProbes == 1
\* openApiKeyChanger runs that may wait on their input box at the same time
MaxKeyDialogs == 1

(***************************************************************************)
(* The environment: documents, files on disk, texts.                       *)
(***************************************************************************)
\* value of an unset optional field (undefined)
Undefined == "<undefined>"
\* paths of the file documents and of the files the file dialog can return
Paths == {"/w/a.py", "/w/b.ts"}
\* a document that is not backed by a file (uri.scheme 'untitled')
UntitledDoc == "Untitled-1"
\* observable versions of a document's text
Texts == {"print(1)", "print(2)"}
\* image files the image dialog can return
ImagePaths == {"/w/x.png", "/w/y.jpg"}
\* texts the user types in the chat input
UserTexts == {"explain"}
\* values of the model selector of the webview
ModelIds == {"claude-3-5-haiku-20241022"}
\* values of the apiKey setting ("" is unset)
ApiKeys == {"", "sk-key"}

\* path.basename
Basename(p) ==
    CASE p = "/w/a.py" -> "a.py"
      [] p = "/w/b.ts" -> "b.ts"
      [] p = "/w/x.png" -> "x.png"
      [] p = "/w/y.jpg" -> "y.jpg"
      [] OTHER -> p

\* path.extname
Extname(name) ==
    CASE name = "a.py" -> ".py"
      [] name = "b.ts" -> ".ts"
      [] name = "x.png" -> ".png"
      [] name = "y.jpg" -> ".jpg"
      [] OTHER -> ""

\* langMap[ext] || 'text'
getLanguageFromExtension(ext) ==
    CASE ext = ".js" -> "javascript"
      [] ext = ".ts" -> "typescript"
      [] ext = ".py" -> "python"
      [] ext = ".md" -> "markdown"
      [] OTHER -> "text"

\* mediaMap[ext] || 'image/jpeg'
getMediaType(ext) ==
    CASE ext = ".png" -> "image/png"
      [] ext = ".jpg" -> "image/jpeg"
      [] ext = ".jpeg" -> "image/jpeg"
      [] ext = ".gif" -> "image/gif"
      [] ext = ".webp" -> "image/webp"
      [] OTHER -> "image/jpeg"

\* editor.document.languageId of a file document, as the host detects it
LanguageId(p) ==
    CASE p = "/w/a.py" -> "python"
      [] p = "/w/b.ts" -> "typescript"
      [] OTHER -> "plaintext"

\* fs.readFileSync(filePath, 'utf-8') of a readable file
DiskText(p) ==
    CASE p = "/w/a.py" -> "print(1)"
      [] p = "/w/b.ts" -> "let x = 1"
      [] OTHER -> ""

\* fs.readFileSync(filePath).toString('base64') of a readable image
DiskBase64(p) ==
    CASE p = "/w/x.png" -> "iVBORw0K"
      [] p = "/w/y.jpg" -> "/9j/4AAQ"
      [] OTHER -> ""

\* config.get('maxImages', 3)
maxImages == 3

\* the defaults of config.get('model', ...) and config.get('maxTokens', ...)
DefaultModel == "claude-3-5-haiku-20241022"
DefaultMaxTokens == 200000
\* values the model and maxTokens settings can be given
SettingsModels == {DefaultModel, "claude-3-haiku-20240307"}
TokenBudgets == {DefaultMaxTokens, 4096}

VARIABLES
    attachedFiles,      \* ClaudeCodeAssistant.attachedFiles
    attachedImages,     \* ClaudeCodeAssistant.attachedImages
    currentActiveFile,  \* ClaudeCodeAssistant.currentActiveFile
    chatPanel,          \* ClaudeCodeAssistant.chatPanel: 0 (undefined) or a panel
    panelState,         \* of the panel chatPanel refers to
    panelsCreated,      \* panels created so far (the next panel's number - 1)
    openChatPc,         \* position of the one openChat run that can be waiting
    openPanels,         \* the panels the host shows: created and not closed
    lastOpenChat,       \* history: what the latest openChat call did
    fileDialogs,        \* handleFileAttachment runs waiting on showOpenDialog
    imageDialogs,       \* handleImageAttachment runs waiting on showOpenDialog
    inflight,           \* chat requests sent and not yet answered
    apiKey,             \* ClaudeAPI.apiKey
    autoAttachFile,     \* the autoAttachFile setting
    settings,           \* the apiKey, model and maxTokens settings of 'claude-assistant'
    model,              \* ClaudeAPI.model
    maxTokens,          \* ClaudeAPI.maxTokens
    docText,            \* current text of each file document in the editor
    lastAttachments,    \* the latest updateAttachments message posted
    lastReply,          \* the latest receiveMessage / receiveError posted
    chatView,           \* the latest message the webview added for a lastReply
    served,             \* history: the latest request the endpoint answered
    lastSend,           \* history: the latest handleChatMessage run that ended
    prompts,            \* explain / optimize / comment / debug requests not yet answered
    lastPrompt,         \* history: the latest run of one of these four commands
    probes,             \* checkApiKeyAccess requests of refreshModels / the key changer
    panelModels,        \* the model list the panel was last given (HTML or updateModels)
    modelSelect,        \* modelSelect.value: the model selected in the webview
    lastProbe,          \* history: the latest checkApiKeyAccess call that returned
    keyDialogs,         \* openApiKeyChanger runs waiting on showInputBox
    lastOp              \* history: the latest handler run on the store and its outcome

storeVars == <<attachedFiles, attachedImages, currentActiveFile>>
panelVars == <<chatPanel, panelState, panelsCreated, openChatPc, openPanels, lastOpenChat>>
dialogVars == <<fileDialogs, imageDialogs>>
sendVars == <<inflight, lastReply, chatView, served, lastSend>>
promptVars == <<prompts, lastPrompt>>
probeVars == <<probes, panelModels, modelSelect, lastProbe, keyDialogs>>
netVars == <<sendVars, promptVars, probeVars>>
cfgVars == <<apiKey, autoAttachFile, settings, model, maxTokens>>
histVars == <<lastOp>>
vars == <<attachedFiles, attachedImages, currentActiveFile, chatPanel, panelState,
          panelsCreated, openChatPc, fileDialogs, imageDialogs, inflight, apiKey,
          autoAttachFile, docText, lastAttachments, lastReply, served, lastSend, prompts,
          lastPrompt, probes, panelModels, lastProbe, keyDialogs, lastOp, openPanels,
          lastOpenChat, chatView, modelSelect, settings, model, maxTokens>>

None == [command |-> "none"]
NoOp == [op |-> "none", arg |-> Undefined, res |-> "none", after |-> "other"]

\* how the handler run before a run of `op` on `arg` relates to it: "focusSame" /
\* "focusOther" when it was a focus change to the same / another document that reached
\* attachCurrentFile, "removedTracked" when it was the removal of the same path while
\* that path was the tracked one, "repeat" when a removal follows the same removal
After(op, arg) ==
    IF lastOp.op = "focus" /\ lastOp.res # "ignored"
    THEN IF lastOp.arg = arg THEN "focusSame" ELSE "focusOther"
    ELSE IF op \in {"removeFile", "removeImage"} /\ lastOp.op = op /\ lastOp.arg = arg
    THEN "repeat"
    ELSE IF lastOp.arg = arg /\ lastOp.op = "removeFile" /\ lastOp.res = "removedTracked"
    THEN "removedTracked"
    ELSE "other"

\* the record of handler run `op` on `arg` ending in `res`
Op(op, arg, res) == [op |-> op, arg |-> arg, res |-> res, after |-> After(op, arg)]

\* lastOp after the handler run o
Logged(o) == lastOp' = o

Init ==
    /\ attachedFiles = <<>>
    /\ attachedImages = <<>>
    /\ currentActiveFile = Undefined
    /\ chatPanel = 0
    /\ panelState = "none"
    /\ panelsCreated = 0
    /\ openChatPc = "idle"
    /\ openPanels = {}
    /\ lastOpenChat = "none"
    /\ fileDialogs = 0
    /\ imageDialogs = 0
    /\ inflight = <<>>
    /\ apiKey \in ApiKeys
    /\ autoAttachFile = TRUE
    /\ settings = [apiKey |-> apiKey, model |-> DefaultModel, maxTokens |-> DefaultMaxTokens]
    /\ model = DefaultModel
    /\ maxTokens = DefaultMaxTokens
    /\ docText \in [Paths -> {"print(1)"}]
    /\ lastAttachments = None
    /\ lastReply = None
    /\ chatView = None
    /\ served = None
    /\ lastSend = None
    /\ prompts = <<>>
    /\ lastPrompt = None
    /\ probes = <<>>
    /\ panelModels = None
    /\ modelSelect = Undefined
    /\ lastProbe = None
    /\ keyDialogs = 0
    /\ lastOp = NoOp

(***************************************************************************)
(* The editors a focus-change event can carry.                             *)
(***************************************************************************)
\* the editor of file document p (uri.scheme 'file', fileName p)
FileEditor(p) == [fileName |-> p, scheme |-> "file", languageId |-> LanguageId(p)]
\* the editor of a document that has no file
UntitledEditor == [fileName |-> UntitledDoc, scheme |-> "untitled", languageId |-> "plaintext"]
\* onDidChangeActiveTextEditor(undefined): no editor has the focus
NoEditor == [fileName |-> Undefined, scheme |-> Undefined, languageId |-> Undefined]
Editors == {FileEditor(p) : p \in Paths} \cup {UntitledEditor, NoEditor}

\* editor.document.getText()
GetText(editor) == IF editor.fileName \in Paths THEN docText[editor.fileName] ELSE ""

(***************************************************************************)
(* Pure helpers of the store.                                              *)
(***************************************************************************)
\* the paths of the entries of a file list
PathsOf(files) == {files[i].path : i \in 1..Len(files)}
\* the names of the entries of an image list
NamesOf(images) == {images[i].name : i \in 1..Len(images)}

\* attachedFiles.filter(f => f.path !== p)
FilterOutPath(files, p) == SelectSeq(files, LAMBDA f : f.path # p)
\* attachedImages.filter(i => i.name !== n)
FilterOutName(images, n) == SelectSeq(images, LAMBDA i : i.name # n)

\* the AttachedFile literal the handlers push; auto is a history field (TRUE when
\* attachCurrentFile made the entry) that no handler reads
FileEntry(name, content, language, path, auto) ==
    [name |-> name, content |-> content, language |-> language, path |-> path, auto |-> auto]

\* the AttachedImage literal handleImageAttachment pushes
ImageEntry(name, data, mediaType) == [name |-> name, data |-> data, mediaType |-> mediaType]

\* a message body that passes the entries of the store as they are
SnapshotWithContent(files, images) == [files |-> files, images |-> images]

\* the body of the updateAttachments message
Snapshot(files, images) ==
    [files |-> [i \in 1..Len(files) |-> [name |-> files[i].name, path |-> files[i].path]],
     images |-> [i \in 1..Len(images) |-> [name |-> images[i].name]]]

\* this.chatPanel.webview: the getter throws once the panel is disposed
WebviewThrows == chatPanel # 0 /\ panelState = "disposed"

\* updateChatAttachments() for the store (files, images): posts when a panel is referenced
updateChatAttachments(files, images) ==
    lastAttachments' =
        IF chatPanel # 0 /\ ~WebviewThrows
        THEN [command |-> "updateAttachments", panel |-> chatPanel,
              files |-> Snapshot(files, images).files,
              images |-> Snapshot(files, images).images]
        ELSE lastAttachments

(***************************************************************************)
(* Focus change: setupFileWatcher and attachCurrentFile.                   *)
(***************************************************************************)
\* attachCurrentFile without line 188: the previous auto-attached entry is kept
attachCurrentFileKeepsPrevious(editor) ==
    LET filePath == editor.fileName
    IN  IF currentActiveFile = filePath
        THEN /\ UNCHANGED <<storeVars, lastAttachments>>
             /\ Logged(Op("focus", filePath, "same"))
        ELSE /\ attachedFiles' =
                    Append(attachedFiles,
                           FileEntry(Basename(filePath), GetText(editor), editor.languageId,
                                     filePath, TRUE))
             /\ currentActiveFile' = filePath
             /\ UNCHANGED attachedImages
             /\ updateChatAttachments(attachedFiles', attachedImages)
             /\ Logged(Op("focus", filePath, "attached"))

\* attachCurrentFile without line 198: the tracked identity is not updated
attachCurrentFileNoTrack(editor) ==
    LET filePath == editor.fileName
    IN  IF currentActiveFile = filePath
        THEN /\ UNCHANGED <<storeVars, lastAttachments>>
             /\ Logged(Op("focus", filePath, "same"))
        ELSE /\ attachedFiles' =
                    Append(FilterOutPath(attachedFiles, currentActiveFile),
                           FileEntry(Basename(filePath), GetText(editor), editor.languageId,
                                     filePath, TRUE))
             /\ UNCHANGED <<currentActiveFile, attachedImages>>
             /\ updateChatAttachments(attachedFiles', attachedImages)
             /\ Logged(Op("focus", filePath, "attached"))

\* attachCurrentFile without the same-file check of lines 183-185
attachCurrentFileAlways(editor) ==
    LET filePath == editor.fileName
    IN  /\ attachedFiles' =
               Append(FilterOutPath(attachedFiles, currentActiveFile),
                      FileEntry(Basename(filePath), GetText(editor), editor.languageId,
                                filePath, TRUE))
        /\ currentActiveFile' = filePath
        /\ UNCHANGED attachedImages
        /\ updateChatAttachments(attachedFiles', attachedImages)
        /\ Logged(Op("focus", filePath, "attached"))

\* an attachCurrentFile that records the focused path without pushing its entry
attachCurrentFileNoEntry(editor) ==
    LET filePath == editor.fileName
    IN  IF currentActiveFile = filePath
        THEN /\ UNCHANGED <<storeVars, lastAttachments>>
             /\ Logged(Op("focus", filePath, "same"))
        ELSE /\ attachedFiles' = FilterOutPath(attachedFiles, currentActiveFile)
             /\ currentActiveFile' = filePath
             /\ UNCHANGED attachedImages
             /\ updateChatAttachments(attachedFiles', attachedImages)
             /\ Logged(Op("focus", filePath, "attached"))

\* attachCurrentFile(editor)
attachCurrentFile(editor) ==
    LET filePath == editor.fileName
        fileName == Basename(filePath)
        language == editor.languageId
        content  == GetText(editor)
    IN  IF currentActiveFile = filePath
        THEN /\ UNCHANGED <<storeVars, lastAttachments>>
             /\ Logged(Op("focus", filePath, "same"))
        ELSE /\ attachedFiles' =
                    Append(FilterOutPath(attachedFiles, currentActiveFile),
                           FileEntry(fileName, content, language, filePath, TRUE))
             /\ currentActiveFile' = filePath
             /\ UNCHANGED attachedImages
             /\ updateChatAttachments(attachedFiles', attachedImages)
             /\ Logged(Op("focus", filePath, "attached"))

\* a listener that does not read the autoAttachFile setting
OnDidChangeActiveTextEditorAlways(editor) ==
    /\ IF editor # NoEditor /\ editor.scheme = "file"
       THEN attachCurrentFile(editor)
       ELSE /\ UNCHANGED <<storeVars, lastAttachments>>
            /\ Logged(Op("focus", editor.fileName, "ignored"))
    /\ UNCHANGED <<panelVars, dialogVars, netVars, cfgVars, docText>>

\* the onDidChangeActiveTextEditor listener of setupFileWatcher
OnDidChangeActiveTextEditor(editor) ==
    /\ IF autoAttachFile /\ editor # NoEditor /\ editor.scheme = "file"
       THEN attachCurrentFile(editor)
       ELSE /\ UNCHANGED <<storeVars, lastAttachments>>
            /\ Logged(Op("focus", editor.fileName, "ignored"))
    /\ UNCHANGED <<panelVars, dialogVars, netVars, cfgVars, docText>>

\* the user edits file document p in the editor
EditDocument(p) ==
    /\ docText' = [docText EXCEPT ![p] = CHOOSE t \in Texts : t # docText[p]]
    /\ UNCHANGED <<storeVars, panelVars, dialogVars, netVars, cfgVars, lastAttachments, histVars>>

\* the user changes the autoAttachFile setting
SetAutoAttachFile(b) ==
    /\ autoAttachFile # b
    /\ autoAttachFile' = b
    /\ UNCHANGED <<storeVars, panelVars, dialogVars, netVars, apiKey, settings, model,
                   maxTokens, docText, lastAttachments, histVars>>

\* ClaudeAPI.updateConfig() when the configuration is cfg
updateConfig(cfg) ==
    /\ apiKey' = cfg.apiKey
    /\ model' = cfg.model
    /\ maxTokens' = cfg.maxTokens

\* the user edits the apiKey, model or maxTokens setting in the settings of the editor
ChangeSettings(cfg) ==
    /\ cfg # settings
    /\ settings' = cfg
    /\ UNCHANGED <<storeVars, panelVars, dialogVars, netVars, apiKey, autoAttachFile, model,
                   maxTokens, docText, lastAttachments, histVars>>

\* the onDidChangeConfiguration listener of activate, for an event that affects
\* 'claude-assistant'
OnDidChangeConfiguration ==
    /\ updateConfig(settings)
    /\ UNCHANGED <<storeVars, panelVars, dialogVars, netVars, autoAttachFile, settings,
                   docText, lastAttachments, histVars>>

(***************************************************************************)
(* ClaudeAPI: the model catalog and the probe checkApiKeyAccess.           *)
(***************************************************************************)
\* ClaudeAPI.availableModels
availableModels ==
    << [id |-> "claude-3-5-haiku-20241022", name |-> "Claude 3.5 Haiku", isPaid |-> FALSE],
       [id |-> "claude-3-haiku-20240307", name |-> "Claude 3 Haiku", isPaid |-> FALSE],
       [id |-> "claude-opus-4.1-20250805", name |-> "Claude Opus 4.1", isPaid |-> TRUE],
       [id |-> "claude-opus-4-20250514", name |-> "Claude Opus 4", isPaid |-> TRUE],
       [id |-> "claude-sonnet-4-20250514", name |-> "Claude Sonnet 4", isPaid |-> TRUE],
       [id |-> "claude-3-7-sonnet-20250219", name |-> "Claude 3.7 Sonnet", isPaid |-> TRUE],
       [id |-> "claude-3-5-sonnet-20241022", name |-> "Claude 3.5 Sonnet", isPaid |-> TRUE],
       [id |-> "claude-3-opus-20240229", name |-> "Claude 3 Opus", isPaid |-> TRUE],
       [id |-> "claude-3-sonnet-20240229", name |-> "Claude 3 Sonnet", isPaid |-> TRUE] >>

\* models.filter(m => !m.isPaid)
FreeModels(models) == SelectSeq(models, LAMBDA m : ~m.isPaid)

\* how the probe request of checkApiKeyAccess can end: answered, rejected with status
\* 401, or failed in another way (another status, no response)
ProbeOutcomes == {"ok", "401", "other"}

\* a check of the key that never finds it missing
KeyMissingNever(key) == FALSE

\* !this.apiKey (lines 73 and 112)
KeyMissing(key) == key = ""

\* a checkApiKeyAccess that takes every failure but a 401 for paid access
checkApiKeyAccessTrusting(key, outcome) ==
    IF KeyMissing(key) THEN FreeModels(availableModels)
    ELSE IF outcome = "401" THEN FreeModels(availableModels)
    ELSE availableModels

\* what checkApiKeyAccess() returns when the key is `key` and its request, if one is
\* made, ends with `outcome`
checkApiKeyAccess(key, outcome) ==
    IF KeyMissing(key) THEN FreeModels(availableModels)
    ELSE IF outcome = "ok" THEN availableModels
    ELSE IF outcome = "401" THEN FreeModels(availableModels)
    ELSE FreeModels(availableModels)

\* a checkApiKeyAccess whose catch block rethrows what is not a 401
ProbeRaisesUnknown(outcome) == outcome = "other"

\* whether checkApiKeyAccess rejects: each path of lines 72-105 ends in a return
ProbeRaises(outcome) == FALSE

\* the record of a checkApiKeyAccess call of `caller` that has returned; delivery tells
\* what became of the model list: "posted", "dropped" (no panel), "threw" (the post
\* threw) or "raised" (the probe rejected)
ProbeReturned(caller, key, outcome, delivery) ==
    lastProbe' = [command |-> "probe", caller |-> caller, key |-> key, outcome |-> outcome,
                  models |-> checkApiKeyAccess(key, outcome), delivery |-> delivery]

\* the model list given to panel: by getChatHTML(models) or by an updateModels message
ModelsMessage(command, panel, models) ==
    [command |-> command, panel |-> panel, models |-> models]

\* modelSelect.value of a select just filled with the options of models: no option
\* carries the selected attribute (line 805), so the first one is selected
FirstOption(models) == models[1].id

\* modelSelect.value after the updateModels listener of the webview (lines 975-988): the
\* options are replaced and the former value is kept if it is still among them
SelectionAfterUpdate(models, currentValue) ==
    IF \E i \in 1..Len(models) : models[i].id = currentValue
    THEN currentValue
    ELSE FirstOption(models)

\* seq without its i-th element
RemoveAt(seq, i) ==
    [j \in 1..(Len(seq) - 1) |-> IF j < i THEN seq[j] ELSE seq[j + 1]]

(***************************************************************************)
(* The chat panel: openChat and the panel's disposal.                      *)
(***************************************************************************)
\* the initial updateAttachments message openChat posts to panel (line 412)
InitialAttachments(panel) ==
    [command |-> "updateAttachments", panel |-> panel,
     files |-> Snapshot(attachedFiles, attachedImages).files,
     images |-> Snapshot(attachedFiles, attachedImages).images]

\* the part of openChat after the await of checkApiKeyAccess (lines 405-442): the
\* webview getter of a disposed panel throws and ends the run
openChatAfterProbe(key, outcome) ==
    IF ProbeRaises(outcome)
    THEN /\ UNCHANGED <<chatPanel, panelState, lastAttachments, panelModels, modelSelect>>
         /\ ProbeReturned("openChat", key, outcome, "raised")
    ELSE IF WebviewThrows
    THEN /\ UNCHANGED <<chatPanel, panelState, lastAttachments, panelModels, modelSelect>>
         /\ ProbeReturned("openChat", key, outcome, "threw")
    ELSE /\ panelState' = "ready"
         /\ UNCHANGED chatPanel
         /\ panelModels' = ModelsMessage("html", chatPanel, checkApiKeyAccess(key, outcome))
         /\ modelSelect' = FirstOption(checkApiKeyAccess(key, outcome))
         /\ lastAttachments' = InitialAttachments(chatPanel)
         /\ ProbeReturned("openChat", key, outcome, "posted")

\* an openChat that takes a panel for referenced only once it has its HTML
PanelReferencedWhenReady == chatPanel # 0 /\ panelState # "loading"

\* if (this.chatPanel) of line 388
PanelReferenced == chatPanel # 0

\* openChat() up to its await: reveal the panel there is, or create one and probe
OpenChat ==
    /\ IF PanelReferenced
       THEN \* this.chatPanel.reveal(), which throws on a disposed panel
            /\ lastOpenChat' = IF WebviewThrows THEN "revealThrew" ELSE "revealed"
            /\ UNCHANGED <<chatPanel, panelState, panelsCreated, openChatPc, openPanels,
                           lastAttachments, probeVars>>
       ELSE /\ panelsCreated < MaxPanels
            /\ panelsCreated' = panelsCreated + 1
            /\ chatPanel' = panelsCreated + 1
            /\ openPanels' = openPanels \cup {panelsCreated + 1}
            /\ lastOpenChat' = "created"
            /\ UNCHANGED keyDialogs
            /\ IF KeyMissing(apiKey)
               THEN \* checkApiKeyAccess returns without a request: no event can
                    \* be dispatched before openChat goes on
                    /\ panelState' = "ready"
                    /\ openChatPc' = "idle"
                    /\ panelModels' = ModelsMessage("html", panelsCreated + 1,
                                                    checkApiKeyAccess(apiKey, "none"))
                    /\ modelSelect' = FirstOption(checkApiKeyAccess(apiKey, "none"))
                    /\ lastAttachments' = InitialAttachments(panelsCreated + 1)
                    /\ ProbeReturned("openChat", apiKey, "none", "posted")
                    /\ UNCHANGED probes
               ELSE /\ panelState' = "loading"
                    /\ openChatPc' = "probe"
                    /\ probes' = Append(probes, [caller |-> "openChat", key |-> apiKey])
                    /\ UNCHANGED <<lastAttachments, panelModels, modelSelect, lastProbe>>
    /\ UNCHANGED <<storeVars, dialogVars, sendVars, promptVars, cfgVars, docText, histVars>>

\* openChat() called while no panel is referenced
CreateChat == ~PanelReferenced /\ OpenChat

\* the probe of openChat ends with `outcome` and openChat goes on
OpenChatProbed(outcome) ==
    /\ openChatPc = "probe"
    /\ openChatPc' = "idle"
    /\ \E i \in 1..Len(probes) :
          /\ probes[i].caller = "openChat"
          /\ probes' = RemoveAt(probes, i)
          /\ openChatAfterProbe(probes[i].key, outcome)
    /\ UNCHANGED <<storeVars, panelsCreated, openPanels, lastOpenChat, dialogVars, sendVars,
                   promptVars, keyDialogs, cfgVars, docText, histVars>>

\* the probe of openChat succeeds and openChat goes on
OpenChatResume == OpenChatProbed("ok")

\* an onDidDispose listener that also empties the store
onDidDisposeClearsStore ==
    /\ chatPanel' = 0
    /\ panelState' = "none"
    /\ attachedFiles' = <<>>
    /\ attachedImages' = <<>>
    /\ currentActiveFile' = Undefined
    /\ UNCHANGED dialogVars

\* the onDidDispose listener openChat registers (lines 407-409)
onDidDispose ==
    /\ chatPanel' = 0
    /\ panelState' = "none"
    /\ UNCHANGED <<storeVars, dialogVars>>

\* the user closes the panel: the listener runs if openChat has registered it
ClosePanel ==
    /\ chatPanel # 0
    /\ panelState \in {"loading", "ready"}
    /\ openPanels' = openPanels \ {chatPanel}
    /\ IF panelState = "ready"
       THEN onDidDispose
       ELSE /\ chatPanel' = chatPanel
            /\ panelState' = "disposed"
            /\ UNCHANGED <<storeVars, dialogVars>>
    /\ UNCHANGED <<panelsCreated, openChatPc, lastOpenChat, netVars, cfgVars, docText,
                   lastAttachments, histVars>>

(***************************************************************************)
(* The webview's commands.  The message listener is registered on a panel  *)
(* by openChat after the probe, so commands arrive from a ready panel.     *)
(***************************************************************************)
ListenerRegistered == chatPanel # 0 /\ panelState = "ready"

\* handleFileAttachment() up to its await of showOpenDialog
AttachFileCommand ==
    /\ ListenerRegistered
    /\ fileDialogs < MaxFileDialogs
    /\ fileDialogs' = fileDialogs + 1
    /\ UNCHANGED <<storeVars, panelVars, imageDialogs, netVars, cfgVars, docText,
                   lastAttachments, histVars>>

\* an attachFile that, for a path already attached, moves the entry to the end of the
\* list before it warns
attachFileMovesDuplicate(filePath) ==
    LET fileName == Basename(filePath)
        content  == DiskText(filePath)
        language == getLanguageFromExtension(Extname(fileName))
    IN  IF \E i \in 1..Len(attachedFiles) : attachedFiles[i].path = filePath
        THEN /\ attachedFiles' =
                    Append(FilterOutPath(attachedFiles, filePath),
                           FileEntry(fileName, content, language, filePath, FALSE))
             /\ UNCHANGED <<attachedImages, currentActiveFile, lastAttachments>>
             /\ Logged(Op("attachFile", filePath, "AlreadyAttached"))
        ELSE /\ attachedFiles' =
                    Append(attachedFiles, FileEntry(fileName, content, language, filePath, FALSE))
             /\ UNCHANGED <<attachedImages, currentActiveFile>>
             /\ updateChatAttachments(attachedFiles', attachedImages)
             /\ Logged(Op("attachFile", filePath, "attached"))

\* attachFile without the already-attached check of lines 513-516
attachFileNoCheck(filePath) ==
    /\ attachedFiles' =
           Append(attachedFiles,
                  FileEntry(Basename(filePath), DiskText(filePath),
                            getLanguageFromExtension(Extname(Basename(filePath))), filePath,
                            FALSE))
    /\ UNCHANGED <<attachedImages, currentActiveFile>>
    /\ updateChatAttachments(attachedFiles', attachedImages)
    /\ Logged(Op("attachFile", filePath, "attached"))

\* the part of handleFileAttachment after the dialog returned filePath and
\* readFileSync returned its content (lines 507-525)
attachFile(filePath) ==
    LET fileName == Basename(filePath)
        content  == DiskText(filePath)
        language == getLanguageFromExtension(Extname(fileName))
    IN  IF \E i \in 1..Len(attachedFiles) : attachedFiles[i].path = filePath
        THEN /\ UNCHANGED <<storeVars, lastAttachments>>
             /\ Logged(Op("attachFile", filePath, "AlreadyAttached"))
        ELSE /\ attachedFiles' =
                    Append(attachedFiles, FileEntry(fileName, content, language, filePath, FALSE))
             /\ UNCHANGED <<attachedImages, currentActiveFile>>
             /\ updateChatAttachments(attachedFiles', attachedImages)
             /\ Logged(Op("attachFile", filePath, "attached"))

\* showOpenDialog of a handleFileAttachment run resolves with filePath
FileDialogPick(filePath) ==
    /\ fileDialogs > 0
    /\ fileDialogs' = fileDialogs - 1
    /\ attachFile(filePath)
    /\ UNCHANGED <<panelVars, imageDialogs, netVars, cfgVars, docText>>

\* showOpenDialog resolves with filePath and readFileSync throws
FileDialogPickUnreadable(filePath) ==
    /\ fileDialogs > 0
    /\ fileDialogs' = fileDialogs - 1
    /\ Logged(Op("attachFile", filePath, "readFailed"))
    /\ UNCHANGED <<storeVars, panelVars, imageDialogs, netVars, cfgVars, docText,
                   lastAttachments>>

\* showOpenDialog resolves with undefined: the user cancelled
FileDialogCancel ==
    /\ fileDialogs > 0
    /\ fileDialogs' = fileDialogs - 1
    /\ Logged(Op("attachFile", Undefined, "cancelled"))
    /\ UNCHANGED <<storeVars, panelVars, imageDialogs, netVars, cfgVars, docText,
                   lastAttachments>>

\* handleImageAttachment() up to its await of showOpenDialog (lines 533-549)
AttachImageCommand ==
    /\ ListenerRegistered
    /\ IF Len(attachedImages) >= maxImages
       THEN /\ Logged(Op("attachImage", Undefined, "LimitExceeded"))
            /\ UNCHANGED imageDialogs
       ELSE /\ imageDialogs < MaxImageDialogs
            /\ imageDialogs' = imageDialogs + 1
            /\ UNCHANGED histVars
    /\ UNCHANGED <<storeVars, panelVars, fileDialogs, netVars, cfgVars, docText, lastAttachments>>

\* the part of handleImageAttachment after the dialog returned filePath and
\* readFileSync returned its bytes (lines 552-564)
attachImage(filePath) ==
    LET fileName  == Basename(filePath)
        extension == Extname(fileName)
        mediaType == getMediaType(extension)
        data      == DiskBase64(filePath)
    IN  /\ attachedImages' = Append(attachedImages, ImageEntry(fileName, data, mediaType))
        /\ UNCHANGED <<attachedFiles, currentActiveFile>>
        /\ updateChatAttachments(attachedFiles, attachedImages')
        /\ Logged(Op("attachImage", filePath, "attached"))

\* showOpenDialog of a handleImageAttachment run resolves with filePath
ImageDialogPick(filePath) ==
    /\ imageDialogs > 0
    /\ imageDialogs' = imageDialogs - 1
    /\ attachImage(filePath)
    /\ UNCHANGED <<panelVars, fileDialogs, netVars, cfgVars, docText>>

\* showOpenDialog resolves with undefined, or readFileSync throws
ImageDialogFail(res) ==
    /\ imageDialogs > 0
    /\ imageDialogs' = imageDialogs - 1
    /\ Logged(Op("attachImage", Undefined, res))
    /\ UNCHANGED <<storeVars, panelVars, fileDialogs, netVars, cfgVars, docText,
                   lastAttachments>>

\* removeAttachedFile without lines 573-575: the tracked identity is kept
removeAttachedFileKeepsTracked(filePath) ==
    /\ attachedFiles' = FilterOutPath(attachedFiles, filePath)
    /\ UNCHANGED <<attachedImages, currentActiveFile>>
    /\ updateChatAttachments(attachedFiles', attachedImages)
    /\ Logged(Op("removeFile", filePath,
                 IF currentActiveFile = filePath THEN "removedTracked" ELSE "removed"))

\* a removeAttachedFile that clears the tracked identity whatever path is removed
removeAttachedFileClearsTracked(filePath) ==
    /\ attachedFiles' = FilterOutPath(attachedFiles, filePath)
    /\ currentActiveFile' = Undefined
    /\ UNCHANGED attachedImages
    /\ updateChatAttachments(attachedFiles', attachedImages)
    /\ Logged(Op("removeFile", filePath,
                 IF currentActiveFile = filePath THEN "removedTracked" ELSE "removed"))

\* removeAttachedFile(filePath)
removeAttachedFile(filePath) ==
    /\ attachedFiles' = FilterOutPath(attachedFiles, filePath)
    /\ currentActiveFile' = IF currentActiveFile = filePath THEN Undefined ELSE currentActiveFile
    /\ UNCHANGED attachedImages
    /\ updateChatAttachments(attachedFiles', attachedImages)
    /\ Logged(Op("removeFile", filePath,
                 IF currentActiveFile = filePath THEN "removedTracked" ELSE "removed"))

\* the removeFile command
RemoveFileCommand(filePath) ==
    /\ ListenerRegistered
    /\ removeAttachedFile(filePath)
    /\ UNCHANGED <<panelVars, dialogVars, netVars, cfgVars, docText>>

\* a removeAttachedImage without line 581: the webview is not told
removeAttachedImageSilent(imageName) ==
    /\ attachedImages' = FilterOutName(attachedImages, imageName)
    /\ UNCHANGED <<attachedFiles, currentActiveFile, lastAttachments>>
    /\ Logged(Op("removeImage", imageName, "removed"))

\* removeAttachedImage(imageName)
removeAttachedImage(imageName) ==
    /\ attachedImages' = FilterOutName(attachedImages, imageName)
    /\ UNCHANGED <<attachedFiles, currentActiveFile>>
    /\ updateChatAttachments(attachedFiles, attachedImages')
    /\ Logged(Op("removeImage", imageName, "removed"))

\* the removeImage command
RemoveImageCommand(imageName) ==
    /\ ListenerRegistered
    /\ removeAttachedImage(imageName)
    /\ UNCHANGED <<panelVars, dialogVars, netVars, cfgVars, docText>>

(***************************************************************************)
(* Chat submit: handleChatMessage and ClaudeAPI.sendMessage.  A text is a  *)
(* sequence of string pieces, concatenation is \o.                         *)
(***************************************************************************)
\* the three backquotes that open and close a fenced code block
Fence == "<fence>"

\* a block without the language after the opening fence
FileBlockUntagged(file) ==
    <<"\n**", file.name, "** (", file.language, "):\n", Fence, "", "\n",
      file.content, "\n", Fence, "\n">>

\* a file block that reads the text of the document as it is at the submit
FileBlockLive(file) ==
    <<"\n**", file.name, "** (", file.language, "):\n", Fence, file.language, "\n",
      IF file.auto THEN docText[file.path] ELSE file.content, "\n", Fence, "\n">>

\* the piece of fileContext handleChatMessage adds for one attached file (line 453)
FileBlock(file) ==
    <<"\n**", file.name, "** (", file.language, "):\n", Fence, file.language, "\n",
      file.content, "\n", Fence, "\n">>

\* the for loop of lines 452-454 over files[1..n]
RECURSIVE FileBlocks(_, _)
FileBlocks(files, n) ==
    IF n = 0 THEN <<>> ELSE FileBlocks(files, n - 1) \o FileBlock(files[n])

\* an augmentation that adds the heading of the file context to every text
AugmentedTextAlwaysHeader(text, files) ==
    text \o <<"\n\n**Attached Files:**\n">> \o FileBlocks(files, Len(files))

\* text after lines 449-456
AugmentedText(text, files) ==
    IF Len(files) > 0
    THEN text \o <<"\n\n**Attached Files:**\n">> \o FileBlocks(files, Len(files))
    ELSE text

\* the image block of lines 462-469
ImageBlock(img) ==
    [type |-> "image",
     source |-> [type |-> "base64", media_type |-> img.mediaType, data |-> img.data]]

\* a content whose image blocks come in the reverse of the attachment order
ComposeContentImagesReversed(text, files, images) ==
    IF Len(images) > 0
    THEN [kind |-> "blocks",
          blocks |-> <<[type |-> "text", text |-> AugmentedText(text, files)]>>
                     \o [i \in 1..Len(images) |-> ImageBlock(images[Len(images) + 1 - i])]]
    ELSE [kind |-> "string", text |-> AugmentedText(text, files)]

\* content after lines 447-473: a string, or a list of a text block and image blocks
ComposeContent(text, files, images) ==
    IF Len(images) > 0
    THEN [kind |-> "blocks",
          blocks |-> <<[type |-> "text", text |-> AugmentedText(text, files)]>>
                     \o [i \in 1..Len(images) |-> ImageBlock(images[i])]]
    ELSE [kind |-> "string", text |-> AugmentedText(text, files)]

\* a message list that keeps a transcript: the turn of the request answered before and
\* its response precede the new turn
ComposeMessagesWithTranscript(text, files, images) ==
    (IF served # None
     THEN served.messages \o <<[role |-> "assistant", content |-> lastReply.text]>>
     ELSE <<>>)
    \o <<[role |-> "user", content |-> ComposeContent(text, files, images)]>>

\* messages of lines 475-478
ComposeMessages(text, files, images) ==
    <<[role |-> "user", content |-> ComposeContent(text, files, images)]>>

\* selectedModel || this.model (line 116)
ModelToUse(selectedModel) == IF selectedModel = Undefined THEN model ELSE selectedModel

\* a request that takes the token budget and the key from the settings as they are now
RequestFromSettings(text, selectedModel) ==
    [model |-> ModelToUse(selectedModel),
     max_tokens |-> settings.maxTokens,
     key |-> settings.apiKey,
     messages |-> ComposeMessages(<<text>>, attachedFiles, attachedImages),
     text |-> text,
     files |-> attachedFiles,
     images |-> attachedImages,
     panel |-> chatPanel,
     docs |-> docText,
     requests |-> 1]

\* the request a handleChatMessage run has in flight: what it passed to axios.post,
\* and as history the text, the store, the panel and the documents' texts at the moment
\* of the submit
Request(text, selectedModel) ==
    [model |-> ModelToUse(selectedModel),
     max_tokens |-> maxTokens,
     key |-> apiKey,
     messages |-> ComposeMessages(<<text>>, attachedFiles, attachedImages),
     text |-> text,
     files |-> attachedFiles,
     images |-> attachedImages,
     panel |-> chatPanel,
     docs |-> docText,
     requests |-> 1]

\* messages composed from the store as it is when the request is answered
WireMessagesRecomputed(r) == ComposeMessages(<<r.text>>, attachedFiles, attachedImages)

\* the messages the endpoint receives for request r: the object axios.post was given
WireMessages(r) == r.messages

\* error.response?.status of the error axios.post rejects with; 0 when the error has no
\* response (the request got no answer, or reading the answer failed)
Status(outcome) ==
    CASE outcome = "401" -> 401
      [] outcome = "429" -> 429
      [] outcome = "403" -> 403
      [] outcome = "500" -> 500
      [] OTHER -> 0

\* error.message of the error caught at line 136
UnderlyingMessage(outcome) ==
    CASE outcome = "noResponse" -> "Network Error"
      [] outcome = "malformedBody" -> "Cannot read properties of undefined (reading 'text')"
      [] OTHER -> "Request failed with status code " \o outcome

\* a catch block without the branch of status 403
ErrorTextWithout403(outcome) ==
    IF Status(outcome) = 401
    THEN <<"Invalid API key. Please check your Anthropic API key.">>
    ELSE IF Status(outcome) = 429
    THEN <<"Rate limit exceeded. Please try again later.">>
    ELSE <<"API Error: ", UnderlyingMessage(outcome)>>

\* the message of the Error sendMessage throws for a failed request (lines 136-146), as
\* the pieces of its template string
ErrorText(outcome) ==
    IF Status(outcome) = 401
    THEN <<"Invalid API key. Please check your Anthropic API key.">>
    ELSE IF Status(outcome) = 429
    THEN <<"Rate limit exceeded. Please try again later.">>
    ELSE IF Status(outcome) = 403
    THEN <<"Access denied. You may need a paid plan to use this model.">>
    ELSE <<"API Error: ", UnderlyingMessage(outcome)>>

\* the message of the Error sendMessage throws when no key is set (line 113)
ConfigurationErrorText == <<"API key not configured. Please set your Anthropic API key.">>

\* how a request can end: answered; rejected with a status; no answer at all; an
\* answer whose content list is empty, so that content[0].text throws inside the try
Outcomes == {"ok", "401", "429", "403", "500", "noResponse", "malformedBody"}

\* response.data.content[0].text of the answer to request r
ResponseText(r) == <<"response to ", r.text>>

\* a sendMessage that issues the request again after a 429
RetriedAfterThrottle(outcome) == outcome = "429"

\* whether sendMessage issues its request again after `outcome`: lines 118-146 hold one
\* axios.post and no loop, and the catch block throws
Retried(outcome) == FALSE

\* a handleChatMessage that turns a submit down while a request is in flight
SubmitBlockedWhileInFlight == inflight # <<>>

\* whether handleChatMessage turns a submit down: it has no guard (lines 445-447)
SubmitBlocked == FALSE

\* the state of what this.chatPanel refers to
PanelAt ==
    IF chatPanel = 0 THEN "none" ELSE IF WebviewThrows THEN "disposed" ELSE "open"

\* the record of a handleChatMessage run: the text submitted, how the request ended,
\* the requests issued for it, its place among the requests in flight, the Error
\* sendMessage threw, the state of chatPanel when the run ended
SendRun(text, outcome, requests, pos, error) ==
    [command |-> "sent", text |-> text, outcome |-> outcome, requests |-> requests,
     pos |-> pos, error |-> error, panelAt |-> PanelAt, delivery |-> "none"]

\* option.textContent of the option of model id in the select (lines 805 and 981)
OptionText(id) ==
    LET m == CHOOSE m \in {availableModels[i] : i \in 1..Len(availableModels)} : m.id = id
    IN  <<m.name, IF m.isPaid THEN " (Paid)" ELSE " (Free)">>

\* the message listener of the webview for receiveMessage / receiveError (lines
\* 959-969): addMessage(text, false, false, modelName) with the text of the option
\* selected now, or addMessage(text, false, true)
addMessage(command, text) ==
    [command |-> "addMessage", panel |-> chatPanel, content |-> text,
     isError |-> (command = "receiveError"),
     model |-> IF command = "receiveMessage" THEN OptionText(modelSelect) ELSE <<>>]

\* whether the webview of the referenced panel has its script and so its listener
WebviewListens == PanelAt = "open" /\ panelState = "ready"

\* what becomes of the chat view when `command` with `text` is posted to the referenced
\* panel: a webview that has no HTML yet has no listener and the message is lost
Received(command, text) ==
    IF WebviewListens
    THEN addMessage(command, text)
    ELSE [command |-> "lost", panel |-> chatPanel, content |-> text,
          isError |-> (command = "receiveError"), model |-> <<>>]

\* a handleChatMessage whose catch block posts nothing
postReplySwallowsErrors(command, text, run) ==
    IF command = "receiveError"
    THEN /\ UNCHANGED <<lastReply, chatView>>
         /\ lastSend' = [run EXCEPT !.delivery = "dropped"]
    ELSE /\ lastReply' = IF PanelAt = "open"
                         THEN [command |-> command, text |-> text, panel |-> chatPanel]
                         ELSE lastReply
         /\ chatView' = IF PanelAt = "open" THEN Received(command, text) ELSE chatView
         /\ lastSend' = [run EXCEPT !.delivery =
                            CASE PanelAt = "open" -> "posted"
                              [] PanelAt = "none" -> "dropped"
                              [] OTHER -> "threw"]

\* this.chatPanel?.webview.postMessage(msg) of lines 481-489, ending the run `run` of
\* handleChatMessage: nothing is posted when chatPanel is undefined; when the webview
\* getter throws, in the try block or in the catch block, the post of the catch block
\* throws out of handleChatMessage
postReply(command, text, run) ==
    /\ lastReply' = IF PanelAt = "open"
                    THEN [command |-> command, text |-> text, panel |-> chatPanel]
                    ELSE lastReply
    /\ chatView' = IF PanelAt = "open" THEN Received(command, text) ELSE chatView
    /\ lastSend' = [run EXCEPT !.delivery =
                       CASE PanelAt = "open" -> "posted"
                         [] PanelAt = "none" -> "dropped"
                         [] OTHER -> "threw"]

\* the user picks the option of model id in the select of the webview
SelectModel(id) ==
    /\ ListenerRegistered
    /\ \E i \in 1..Len(panelModels.models) : panelModels.models[i].id = id
    /\ id # modelSelect
    /\ modelSelect' = id
    /\ UNCHANGED <<storeVars, panelVars, dialogVars, sendVars, promptVars, probes, panelModels,
                   lastProbe, keyDialogs, cfgVars, docText, lastAttachments, histVars>>

\* the sendMessage command: handleChatMessage up to the await of sendMessage
SendMessageCommand(text, selectedModel) ==
    /\ ListenerRegistered
    /\ selectedModel = modelSelect
    /\ ~SubmitBlocked
    /\ IF KeyMissing(apiKey)
       THEN /\ postReply("receiveError", ConfigurationErrorText,
                         SendRun(text, "ConfigurationError", 0, 0, ConfigurationErrorText))
            /\ Logged(Op("sendMessage", text, "ConfigurationError"))
            /\ UNCHANGED inflight
       ELSE /\ Len(inflight) < MaxInFlight
            /\ inflight' = Append(inflight, Request(text, selectedModel))
            /\ UNCHANGED <<lastReply, chatView, lastSend, histVars>>
    /\ UNCHANGED <<storeVars, panelVars, dialogVars, served, promptVars, probeVars, cfgVars,
                   docText, lastAttachments>>

\* the request inflight[i] ends with `outcome` and its handleChatMessage run goes on
SendResolve(i, outcome) ==
    /\ i \in 1..Len(inflight)
    /\ served' = [command |-> "served", messages |-> WireMessages(inflight[i]),
                  text |-> inflight[i].text, files |-> inflight[i].files,
                  images |-> inflight[i].images]
    /\ IF Retried(outcome)
       THEN /\ inflight' = [inflight EXCEPT ![i].requests = @ + 1]
            /\ UNCHANGED <<lastReply, chatView, lastSend, histVars>>
       ELSE /\ inflight' = RemoveAt(inflight, i)
            /\ IF outcome = "ok"
               THEN postReply("receiveMessage", ResponseText(inflight[i]),
                              SendRun(inflight[i].text, outcome, inflight[i].requests, i, <<>>))
               ELSE postReply("receiveError", ErrorText(outcome),
                              SendRun(inflight[i].text, outcome, inflight[i].requests, i,
                                      ErrorText(outcome)))
            /\ Logged(Op("sendMessage", inflight[i].text, outcome))
    /\ UNCHANGED <<storeVars, panelVars, dialogVars, promptVars, probeVars, cfgVars, docText,
                   lastAttachments>>

(***************************************************************************)
(* The model list: refreshModels and openApiKeyChanger.                    *)
(***************************************************************************)
\* the probes in flight that openChat did not start
CommandProbes == {i \in 1..Len(probes) : probes[i].caller # "openChat"}

\* the post of the model list after the await of checkApiKeyAccess: refreshModels posts
\* through this.chatPanel?.webview (lines 436-439), openApiKeyChanger through
\* this.chatPanel.webview (lines 379-382), which throws when chatPanel is undefined
postModels(caller, key, outcome) ==
    IF ProbeRaises(outcome)
    THEN /\ UNCHANGED <<panelModels, modelSelect>>
         /\ ProbeReturned(caller, key, outcome, "raised")
    ELSE IF PanelAt = "open"
    THEN /\ panelModels' = ModelsMessage("updateModels", chatPanel,
                                         checkApiKeyAccess(key, outcome))
         /\ modelSelect' = SelectionAfterUpdate(checkApiKeyAccess(key, outcome), modelSelect)
         /\ ProbeReturned(caller, key, outcome, "posted")
    ELSE /\ UNCHANGED <<panelModels, modelSelect>>
         /\ ProbeReturned(caller, key, outcome,
                          IF PanelAt = "none" /\ caller = "refreshModels"
                          THEN "dropped" ELSE "threw")

\* the refreshModels command up to the await of checkApiKeyAccess
RefreshModelsCommand ==
    /\ ListenerRegistered
    /\ IF KeyMissing(apiKey)
       THEN /\ postModels("refreshModels", apiKey, "none")
            /\ UNCHANGED probes
       ELSE /\ Cardinality(CommandProbes) < MaxProbes
            /\ probes' = Append(probes, [caller |-> "refreshModels", key |-> apiKey])
            /\ UNCHANGED <<panelModels, modelSelect, lastProbe>>
    /\ UNCHANGED <<storeVars, panelVars, dialogVars, sendVars, promptVars, keyDialogs, cfgVars,
                   docText, lastAttachments, histVars>>

\* the openApiKeyChanger command up to the await of showInputBox
KeyChangerCommand ==
    /\ ListenerRegistered
    /\ keyDialogs < MaxKeyDialogs
    /\ keyDialogs' = keyDialogs + 1
    /\ UNCHANGED <<storeVars, panelVars, dialogVars, sendVars, promptVars, probes, panelModels,
                   modelSelect, lastProbe, cfgVars, docText, lastAttachments, histVars>>

\* the input box is confirmed with newKey: the setting is written, updateConfig reads it,
\* and with a chat panel the run goes on to the await of checkApiKeyAccess
KeyEntered(newKey) ==
    /\ keyDialogs > 0
    /\ keyDialogs' = keyDialogs - 1
    /\ settings' = [settings EXCEPT !.apiKey = newKey]
    /\ updateConfig(settings')
    /\ IF chatPanel = 0
       THEN UNCHANGED <<probes, panelModels, modelSelect, lastProbe>>
       ELSE IF KeyMissing(newKey)
       THEN /\ postModels("keyChanger", newKey, "none")
            /\ UNCHANGED probes
       ELSE /\ Cardinality(CommandProbes) < MaxProbes
            /\ probes' = Append(probes, [caller |-> "keyChanger", key |-> newKey])
            /\ UNCHANGED <<panelModels, modelSelect, lastProbe>>
    /\ UNCHANGED <<storeVars, panelVars, dialogVars, sendVars, promptVars, autoAttachFile,
                   docText, lastAttachments, histVars>>

\* the input box is dismissed: newKey is undefined
KeyCancelled ==
    /\ keyDialogs > 0
    /\ keyDialogs' = keyDialogs - 1
    /\ UNCHANGED <<storeVars, panelVars, dialogVars, sendVars, promptVars, probes, panelModels,
                   modelSelect, lastProbe, cfgVars, docText, lastAttachments, histVars>>

\* the probe probes[i] of refreshModels or of the key changer ends with `outcome` and
\* its caller goes on
ProbeResolve(i, outcome) ==
    /\ i \in CommandProbes
    /\ probes' = RemoveAt(probes, i)
    /\ postModels(probes[i].caller, probes[i].key, outcome)
    /\ UNCHANGED <<storeVars, panelVars, dialogVars, sendVars, promptVars, keyDialogs, cfgVars,
                   docText, lastAttachments, histVars>>

(***************************************************************************)
(* The editor commands explainCode, optimizeCode, addComments, debugCode.  *)
(***************************************************************************)
\* the four commands, with the title each gives showResponse
PromptCommands == {"explainCode", "optimizeCode", "addComments", "debugCode"}
PromptTitle(cmd) ==
    CASE cmd = "explainCode" -> "Code Explanation"
      [] cmd = "optimizeCode" -> "Code Optimization"
      [] cmd = "addComments" -> "Commented Code"
      [] OTHER -> "Debug Analysis"

\* what editor.document.getText(editor.selection) can be
Selections == {"", "x = 1"}

\* the record of a run of cmd: how it ended and what the user was shown
PromptRun(cmd, outcome, shown, text) ==
    [command |-> cmd, outcome |-> outcome, shown |-> shown, text |-> text]

\* a check of the selection that never finds it empty
NothingSelectedNever(selectedText) == FALSE

\* !selectedText (lines 226, 262, 298, 334)
NothingSelected(selectedText) == selectedText = ""

\* the request a run of cmd has in flight: what sendMessage(messages), called without a
\* model, passed to axios.post, and as history the command and the selection
PromptRequest(cmd, selectedText) ==
    [command |-> cmd, selectedText |-> selectedText, model |-> ModelToUse(Undefined),
     max_tokens |-> maxTokens, key |-> apiKey]

\* cmd() up to the await of sendMessage inside the callback given to withProgress.
\* withProgress is called without await, so the try block has ended when the promise of
\* the callback rejects: the catch block of cmd never runs for it
PromptCommand(cmd, hasEditor, selectedText) ==
    /\ IF ~hasEditor
       THEN /\ lastPrompt' = PromptRun(cmd, "noEditor", "showErrorMessage",
                                       <<"No active editor found">>)
            /\ UNCHANGED prompts
       ELSE IF NothingSelected(selectedText)
       THEN /\ lastPrompt' = PromptRun(cmd, "noSelection", "showErrorMessage",
                                       <<"No code selected">>)
            /\ UNCHANGED prompts
       ELSE IF KeyMissing(apiKey)
       THEN /\ lastPrompt' = PromptRun(cmd, "ConfigurationError", "unhandledRejection",
                                       ConfigurationErrorText)
            /\ UNCHANGED prompts
       ELSE /\ Len(prompts) < MaxPrompts
            /\ prompts' = Append(prompts, PromptRequest(cmd, selectedText))
            /\ UNCHANGED lastPrompt
    /\ UNCHANGED <<storeVars, panelVars, dialogVars, sendVars, probeVars, cfgVars, docText,
                   lastAttachments, histVars>>

\* the request prompts[i] ends with `outcome` and the callback goes on
PromptResolve(i, outcome) ==
    /\ i \in 1..Len(prompts)
    /\ prompts' = RemoveAt(prompts, i)
    /\ lastPrompt' =
          IF outcome = "ok"
          THEN PromptRun(prompts[i].command, outcome, "showResponse",
                         <<PromptTitle(prompts[i].command)>>)
          ELSE PromptRun(prompts[i].command, outcome, "unhandledRejection",
                         ErrorText(outcome))
    /\ UNCHANGED <<storeVars, panelVars, dialogVars, sendVars, probeVars, cfgVars, docText,
                   lastAttachments, histVars>>

(***************************************************************************)
(* Specifications.                                                         *)
(***************************************************************************)
FocusEvents == \E editor \in Editors : OnDidChangeActiveTextEditor(editor)
EditEvents == \E p \in Paths : EditDocument(p)
ConfigEvents == \E b \in BOOLEAN : SetAutoAttachFile(b)
FileAttachEvents ==
    \/ AttachFileCommand
    \/ \E p \in Paths : FileDialogPick(p)
    \/ \E p \in Paths : FileDialogPickUnreadable(p)
    \/ FileDialogCancel
ImageAttachEvents ==
    \/ AttachImageCommand
    \/ \E p \in ImagePaths : ImageDialogPick(p)
    \/ \E res \in {"cancelled", "readFailed"} : ImageDialogFail(res)
RemoveFileEvents == \E p \in Paths : RemoveFileCommand(p)
RemoveImageEvents == \E p \in ImagePaths : RemoveImageCommand(Basename(p))
PromptEvents ==
    \/ \E cmd \in PromptCommands, hasEditor \in BOOLEAN, selectedText \in Selections :
          PromptCommand(cmd, hasEditor, selectedText)
    \/ \E i \in 1..MaxPrompts, outcome \in Outcomes : PromptResolve(i, outcome)
ModelListEvents ==
    \/ RefreshModelsCommand
    \/ KeyChangerCommand
    \/ \E newKey \in ApiKeys : KeyEntered(newKey)
    \/ KeyCancelled
    \/ \E i \in 1..(MaxProbes + 1), outcome \in ProbeOutcomes : ProbeResolve(i, outcome)
SubmitEvents ==
    \/ \E text \in UserTexts, m \in ModelIds \cup {modelSelect} : SendMessageCommand(text, m)
    \/ \E i \in 1..MaxInFlight, outcome \in Outcomes : SendResolve(i, outcome)

\* the models the user picks among in the select: the two every list holds
SelectableModels == {"claude-3-5-haiku-20241022", "claude-3-haiku-20240307"}

Next ==
    \/ FocusEvents
    \/ EditEvents
    \/ ConfigEvents
    \/ \E cfg \in [apiKey : ApiKeys, model : SettingsModels, maxTokens : TokenBudgets] :
          ChangeSettings(cfg)
    \/ OnDidChangeConfiguration
    \/ \E id \in SelectableModels : SelectModel(id)
    \/ OpenChat
    \/ \E outcome \in ProbeOutcomes : OpenChatProbed(outcome)
    \/ ClosePanel
    \/ FileAttachEvents
    \/ ImageAttachEvents
    \/ RemoveFileEvents
    \/ RemoveImageEvents
    \/ SubmitEvents
    \/ PromptEvents
    \/ ModelListEvents

Spec == Init /\ [][Next]_vars

\* the file side of the store: focus changes, attachFile and removeFile
NextFiles ==
    \/ FocusEvents
    \/ EditEvents
    \/ ConfigEvents
    \/ CreateChat
    \/ OpenChatResume
    \/ FileAttachEvents
    \/ RemoveFileEvents

SpecFiles == Init /\ [][NextFiles]_vars

\* the store over the life of chat panels
NextSession ==
    \/ FocusEvents
    \/ CreateChat
    \/ OpenChatResume
    \/ ClosePanel
    \/ AttachImageCommand
    \/ ImageDialogPick("/w/x.png")
    \/ RemoveImageCommand("x.png")

SpecSession == Init /\ [][NextSession]_vars

\* attachFile commands alone, from an open panel
NextAttachFile ==
    \/ CreateChat
    \/ OpenChatResume
    \/ FileAttachEvents

SpecAttachFile == Init /\ [][NextAttachFile]_vars

\* the image side of the store: attachImage and removeImage from an open panel
NextImages ==
    \/ CreateChat
    \/ OpenChatResume
    \/ ClosePanel
    \/ ImageAttachEvents
    \/ RemoveImageEvents

SpecImages == Init /\ [][NextImages]_vars

\* chat submits, one at a time, with the store changing while the request is in flight
NextSubmit ==
    \/ \E p \in Paths : OnDidChangeActiveTextEditor(FileEditor(p))
    \/ CreateChat
    \/ OpenChatResume
    \/ AttachImageCommand
    \/ ImageDialogPick("/w/x.png")
    \/ \E text \in UserTexts, m \in ModelIds :
          inflight = <<>> /\ SendMessageCommand(text, m)
    \/ \E outcome \in {"ok", "401"} : SendResolve(1, outcome)

SpecSubmit == Init /\ [][NextSubmit]_vars

\* removals on a store of files and images
NextRemove ==
    \/ \E p \in Paths : OnDidChangeActiveTextEditor(FileEditor(p))
    \/ CreateChat
    \/ OpenChatResume
    \/ AttachFileCommand
    \/ \E p \in Paths : FileDialogPick(p)
    \/ AttachImageCommand
    \/ \E p \in ImagePaths : ImageDialogPick(p)
    \/ RemoveFileEvents
    \/ RemoveImageEvents

SpecRemove == Init /\ [][NextRemove]_vars

\* chat submits over the life of chat panels, with every way a request can end
NextSend ==
    \/ CreateChat
    \/ OpenChatResume
    \/ ClosePanel
    \/ SubmitEvents

SpecSend == Init /\ [][NextSend]_vars

\* every entry point that calls the API client: the chat submit and the four commands
NextEntryPoints ==
    \/ CreateChat
    \/ OpenChatResume
    \/ SubmitEvents
    \/ PromptEvents

SpecEntryPoints == Init /\ [][NextEntryPoints]_vars

\* the model list over the life of chat panels: openChat, refreshModels, the key changer
NextModels ==
    \/ CreateChat
    \/ \E outcome \in ProbeOutcomes : OpenChatProbed(outcome)
    \/ ClosePanel
    \/ ModelListEvents

SpecModels == Init /\ [][NextModels]_vars

\* the texts of overlapping submits: a request is known by its text
OverlapTexts == {"explain", "fix"}

\* chat submits that overlap
NextOverlap ==
    \/ CreateChat
    \/ OpenChatResume
    \/ ClosePanel
    \/ \E text \in OverlapTexts, m \in ModelIds : SendMessageCommand(text, m)
    \/ \E i \in 1..MaxInFlight, outcome \in {"ok", "429"} : SendResolve(i, outcome)

SpecOverlap == Init /\ [][NextOverlap]_vars

\* whether a request for text is in flight
InFlight(text) == \E i \in 1..Len(inflight) : inflight[i].text = text

\* the request for text ends, in success or in failure
RequestEnds(text) ==
    \E i \in 1..MaxInFlight, outcome \in {"ok", "429"} :
        /\ i <= Len(inflight)
        /\ inflight[i].text = text
        /\ SendResolve(i, outcome)

\* chat submits of texts not in flight, over the life of chat panels
NextAnswer ==
    \/ CreateChat
    \/ OpenChatResume
    \/ ClosePanel
    \/ \E text \in OverlapTexts, m \in ModelIds :
          ~InFlight(text) /\ SendMessageCommand(text, m)
    \/ \E text \in OverlapTexts : RequestEnds(text)

\* no request stays in flight for ever: axios.post resolves or rejects
SpecAnswer ==
    /\ Init
    /\ [][NextAnswer]_vars
    /\ \A text \in OverlapTexts : WF_vars(RequestEnds(text))

\* the entry handleFileAttachment pushes for the file at p
ManualFile(p) ==
    FileEntry(Basename(p), DiskText(p), getLanguageFromExtension(Extname(Basename(p))), p,
              FALSE)

\* the entry handleImageAttachment pushes for the image at p
DiskImage(p) == ImageEntry(Basename(p), DiskBase64(p), getMediaType(Extname(Basename(p))))

\* file lists that attachFile commands leave: up to two files, in either order
ComposeFileLists ==
    {<<>>} \cup {<<ManualFile(p)>> : p \in Paths}
           \cup {l \in {<<ManualFile(p), ManualFile(q)>> : p \in Paths, q \in Paths} :
                       l[1].path # l[2].path}

\* image lists that attachImage commands leave: up to maxImages images, in any order
ComposeImageLists ==
    UNION {[1..n -> {DiskImage(p) : p \in ImagePaths}] : n \in 0..maxImages}

\* the composition of chat requests: handleChatMessage applied to a store that attachFile
\* and attachImage commands have filled
InitCompose ==
    /\ attachedFiles \in ComposeFileLists
    /\ attachedImages \in ComposeImageLists
    /\ currentActiveFile = Undefined
    /\ chatPanel = 0
    /\ panelState = "none"
    /\ panelsCreated = 0
    /\ openChatPc = "idle"
    /\ openPanels = {}
    /\ lastOpenChat = "none"
    /\ fileDialogs = 0
    /\ imageDialogs = 0
    /\ inflight = <<>>
    /\ apiKey \in ApiKeys
    /\ autoAttachFile = TRUE
    /\ settings = [apiKey |-> apiKey, model |-> DefaultModel, maxTokens |-> DefaultMaxTokens]
    /\ model = DefaultModel
    /\ maxTokens = DefaultMaxTokens
    /\ docText \in [Paths -> {"print(1)"}]
    /\ lastAttachments = None
    /\ lastReply = None
    /\ chatView = None
    /\ served = None
    /\ lastSend = None
    /\ prompts = <<>>
    /\ lastPrompt = None
    /\ probes = <<>>
    /\ panelModels = None
    /\ modelSelect = Undefined
    /\ lastProbe = None
    /\ keyDialogs = 0
    /\ lastOp = NoOp

NextCompose ==
    \/ CreateChat
    \/ OpenChatResume
    \/ \E text \in OverlapTexts, m \in ModelIds :
          inflight = <<>> /\ SendMessageCommand(text, m)
    \/ SendResolve(1, "ok")

SpecCompose == InitCompose /\ [][NextCompose]_vars

\* chat submits one after the other, of two texts, with the store changing in between
NextTurns ==
    \/ \E p \in Paths : OnDidChangeActiveTextEditor(FileEditor(p))
    \/ CreateChat
    \/ OpenChatResume
    \/ RemoveFileEvents
    \/ imageDialogs = 0 /\ attachedImages = <<>> /\ AttachImageCommand
    \/ ImageDialogPick("/w/x.png")
    \/ RemoveImageCommand("x.png")
    \/ \E text \in OverlapTexts, m \in ModelIds :
          inflight = <<>> /\ SendMessageCommand(text, m)
    \/ SendResolve(1, "ok")

SpecTurns == Init /\ [][NextTurns]_vars

\* attachFile and attachImage commands alone, from an open panel
NextAttach ==
    \/ CreateChat
    \/ OpenChatResume
    \/ FileAttachEvents
    \/ ImageAttachEvents

SpecAttach == Init /\ [][NextAttach]_vars

\* every handler that changes the store, over the life of chat panels
NextSync ==
    \/ \E p \in Paths : OnDidChangeActiveTextEditor(FileEditor(p))
    \/ CreateChat
    \/ OpenChatResume
    \/ ClosePanel
    \/ (fileDialogs = 0 /\ AttachFileCommand)
    \/ FileDialogPick("/w/a.py")
    \/ (imageDialogs = 0 /\ AttachImageCommand)
    \/ ImageDialogPick("/w/x.png")
    \/ RemoveFileEvents
    \/ RemoveImageCommand("x.png")

SpecSync == Init /\ [][NextSync]_vars

\* openChat called at any moment of the life of chat panels
NextPanels ==
    \/ \E p \in Paths : OnDidChangeActiveTextEditor(FileEditor(p))
    \/ OpenChat
    \/ \E outcome \in ProbeOutcomes : OpenChatProbed(outcome)
    \/ ClosePanel
    \/ RefreshModelsCommand
    \/ \E i \in 1..(MaxProbes + 1), outcome \in ProbeOutcomes : ProbeResolve(i, outcome)

SpecPanels == Init /\ [][NextPanels]_vars

\* the settings changing, by hand and through the key changer, around sends
NextConfig ==
    \/ CreateChat
    \/ OpenChatResume
    \/ \E cfg \in [apiKey : {settings.apiKey}, model : SettingsModels, maxTokens : TokenBudgets] :
          ChangeSettings(cfg)
    \/ OnDidChangeConfiguration
    \/ (probes = <<>> /\ KeyChangerCommand)
    \/ \E newKey \in ApiKeys : KeyEntered(newKey)
    \/ \E i \in 1..(MaxProbes + 1) : ProbeResolve(i, "ok")
    \/ \E text \in UserTexts, m \in ModelIds : inflight = <<>> /\ SendMessageCommand(text, m)
    \/ SendResolve(1, "ok")
    \/ PromptCommand("explainCode", TRUE, "x = 1")
    \/ PromptResolve(1, "ok")

SpecConfig == Init /\ [][NextConfig]_vars

\* chat submits with the documents edited between the focus changes
NextEdits ==
    \/ \E p \in Paths : OnDidChangeActiveTextEditor(FileEditor(p))
    \/ EditEvents
    \/ CreateChat
    \/ OpenChatResume
    \/ \E text \in UserTexts, m \in ModelIds : inflight = <<>> /\ SendMessageCommand(text, m)
    \/ SendResolve(1, "ok")

SpecEdits == Init /\ [][NextEdits]_vars

\* chat submits with the model selection of the webview changing around them
NextShown ==
    \/ CreateChat
    \/ OpenChatResume
    \/ \E id \in SelectableModels : SelectModel(id)
    \/ \E text \in OverlapTexts, m \in SelectableModels : SendMessageCommand(text, m)
    \/ \E i \in 1..MaxInFlight : SendResolve(i, "ok")

SpecShown == Init /\ [][NextShown]_vars

(***************************************************************************)
(* Properties of the attachment store.                                     *)
(***************************************************************************)
\* the entries of a list, as a set
Range(seq) == {seq[i] : i \in 1..Len(seq)}

\* C1: in every reachable state of the store no two file entries have the same
\* originPath.
C1_UniqueOriginPath ==
    \A i, j \in 1..Len(attachedFiles) :
        attachedFiles[i].path = attachedFiles[j].path => i = j

\* C2: over attachFile commands alone (their handlers overlapping on the dialog), an
\* attachFile of a path that is not in the store appends an entry for it, an
\* attachFile of a path that is in the store changes nothing and ends AlreadyAttached,
\* and the store never holds two entries with the same originPath.
C2_AttachFile ==
    /\ [][\A p \in Paths :
            FileDialogPick(p) =>
                IF p \in PathsOf(attachedFiles)
                THEN attachedFiles' = attachedFiles /\ lastOp'.res = "AlreadyAttached"
                ELSE /\ Len(attachedFiles') = Len(attachedFiles) + 1
                     /\ SubSeq(attachedFiles', 1, Len(attachedFiles)) = attachedFiles
                     /\ attachedFiles'[Len(attachedFiles')].path = p
                     /\ lastOp'.res = "attached"]_vars
    /\ [](\A i, j \in 1..Len(attachedFiles) :
            i # j => attachedFiles[i].path # attachedFiles[j].path)

\* C2 witness: with both paths attached, a repeated path was just rejected while
\* another handleFileAttachment run still waits on its dialog.
C2_Witness ==
    /\ Len(attachedFiles) = 2
    /\ lastOp.op = "attachFile" /\ lastOp.res = "AlreadyAttached"
    /\ fileDialogs > 0

\* C3: an attachImage made at the limit is rejected and the number of attached images
\* never exceeds maxImages, also when attachImage commands overlap on the dialog.
C3_NeverExceedsMaxImages == Len(attachedImages) <= maxImages

\* C4: a manually attached file or image stays in the store over every step that is
\* not the removeFile of its path / the removeImage of its name.
C4_ManualStays ==
    [][/\ \A f \in Range(attachedFiles) :
            ~f.auto => \/ f \in Range(attachedFiles')
                       \/ RemoveFileCommand(f.path)
       /\ \A img \in Range(attachedImages) :
            \/ img \in Range(attachedImages')
            \/ RemoveImageCommand(img.name)]_vars

\* C5: the messages the endpoint receives for a request are those composed from the
\* text and the store as they were when the sendMessage command was handled, whatever
\* happened to the store while the request was in flight.
C5_SnapshotAtSubmit ==
    /\ \A i \in 1..Len(inflight) :
          WireMessages(inflight[i]) =
              ComposeMessages(<<inflight[i].text>>, inflight[i].files, inflight[i].images)
    /\ served # None =>
          served.messages = ComposeMessages(<<served.text>>, served.files, served.images)

\* C5 witness: a request is in flight and both the file list and the image list have
\* changed since it was submitted.
C5_Witness ==
    \E i \in 1..Len(inflight) :
        /\ inflight[i].files # attachedFiles
        /\ inflight[i].images # attachedImages
        /\ inflight[i].files # <<>>

\* C6 (as claimed): when the chat panel closes, the attached files, the attached
\* images and the tracked identity are discarded.
C6_CloseDiscardsStore ==
    [][ClosePanel =>
          /\ attachedFiles' = <<>>
          /\ attachedImages' = <<>>
          /\ currentActiveFile' = Undefined]_vars

\* C6 (amended): closing the chat panel leaves the attached files, the attached images
\* and the tracked identity as they are, and a panel that openChat makes ready is sent
\* the store as it is then in its initial updateAttachments.
C6_StoreOutlivesPanel ==
    [][/\ ClosePanel => UNCHANGED storeVars
       /\ ((OpenChat \/ OpenChatResume) /\ panelState # "ready" /\ panelState' = "ready") =>
             /\ UNCHANGED storeVars
             /\ lastAttachments' =
                   [command |-> "updateAttachments", panel |-> chatPanel',
                    files |-> Snapshot(attachedFiles, attachedImages).files,
                    images |-> Snapshot(attachedFiles, attachedImages).images]]_vars

\* C6 witness: a second panel is ready and was sent, as its initial updateAttachments,
\* a store that holds a file, an image and a tracked identity.
C6_Witness ==
    /\ chatPanel = 2 /\ panelState = "ready"
    /\ lastAttachments = InitialAttachments(2)
    /\ attachedFiles # <<>> /\ attachedImages # <<>> /\ currentActiveFile # Undefined

\* the indices of the entries attachCurrentFile made
AutoEntries(files) == {i \in 1..Len(files) : files[i].auto}

\* C7: autoAttach(d) with d not the tracked identity removes the entries whose
\* originPath is the tracked identity, appends an entry built from d's current text,
\* language and path and makes d the tracked identity; at most one auto-attached
\* entry exists in any state.
C7_AutoAttachReplaces ==
    /\ [][\A editor \in Editors :
            (/\ OnDidChangeActiveTextEditor(editor)
             /\ autoAttachFile /\ editor.scheme = "file"
             /\ currentActiveFile # editor.fileName) =>
                /\ currentActiveFile \notin PathsOf(attachedFiles')
                /\ Len(attachedFiles') >= 1
                /\ attachedFiles'[Len(attachedFiles')] =
                      FileEntry(Basename(editor.fileName), docText[editor.fileName],
                                editor.languageId, editor.fileName, TRUE)
                /\ SubSeq(attachedFiles', 1, Len(attachedFiles') - 1) =
                      FilterOutPath(attachedFiles, currentActiveFile)
                /\ currentActiveFile' = editor.fileName]_vars
    /\ [](Cardinality(AutoEntries(attachedFiles)) <= 1)

\* C7 witness: a focus change has just replaced the entry of the document that was
\* focused before it with an entry holding the edited text of the new document.
C7_Witness ==
    /\ lastOp.op = "focus" /\ lastOp.res = "attached" /\ lastOp.after = "focusOther"
    /\ currentActiveFile = "/w/b.ts"
    /\ docText["/w/b.ts"] = "print(2)"
    /\ \E i \in 1..Len(attachedFiles) :
          attachedFiles[i].auto /\ attachedFiles[i].content = "print(2)"
    /\ Len(attachedFiles) >= 2

\* C8 (as claimed): after every focus-change event to a document, the auto-attached
\* entry is the one for that document.
C8_AfterEveryFocusChange ==
    (lastOp.op = "focus" /\ lastOp.arg # Undefined) =>
        /\ currentActiveFile = lastOp.arg
        /\ \E i \in AutoEntries(attachedFiles) : attachedFiles[i].path = lastOp.arg

\* C8 (amended): after every focus-change event to a file document handled while the
\* autoAttachFile setting is on, the tracked identity is that document, the one
\* auto-attached entry is the entry for it, and the entry of a previously tracked
\* other document is gone.
C8_AfterFileFocusChange ==
    [][\A editor \in Editors :
          (OnDidChangeActiveTextEditor(editor) /\ autoAttachFile /\ editor.scheme = "file") =>
              /\ currentActiveFile' = editor.fileName
              /\ Cardinality(AutoEntries(attachedFiles')) = 1
              /\ \A i \in AutoEntries(attachedFiles') :
                    attachedFiles'[i].path = editor.fileName
              /\ currentActiveFile # editor.fileName =>
                    currentActiveFile \notin PathsOf(attachedFiles')]_vars

\* C8 witness: the focus moved from one file document to another and the only
\* auto-attached entry is the one of the document focused now.
C8_Witness ==
    /\ lastOp.op = "focus" /\ lastOp.res = "attached" /\ lastOp.after = "focusOther"
    /\ currentActiveFile = lastOp.arg
    /\ \A i \in AutoEntries(attachedFiles) : attachedFiles[i].path = lastOp.arg
    /\ AutoEntries(attachedFiles) # {}

\* C9: a second consecutive autoAttach of the same document leaves the file list, the
\* image list and the tracked identity as the first left them, also when the
\* document's text was edited in between.
C9_AutoAttachIdempotent ==
    [][\A editor \in Editors :
          (/\ OnDidChangeActiveTextEditor(editor)
           /\ autoAttachFile /\ editor.scheme = "file"
           /\ lastOp.op = "focus" /\ lastOp.res # "ignored"
           /\ lastOp.arg = editor.fileName) =>
              UNCHANGED storeVars]_vars

\* C9 witness: the same document was auto-attached twice in a row, its text was edited
\* in between, and the store still holds the text of the first call.
C9_Witness ==
    /\ lastOp.op = "focus" /\ lastOp.res = "same" /\ lastOp.after = "focusSame"
    /\ \E i \in AutoEntries(attachedFiles) :
          /\ attachedFiles[i].path = lastOp.arg
          /\ attachedFiles[i].content # docText[lastOp.arg]

\* C10 (as claimed): removing the tracked path clears the tracked identity, and the
\* next focus-change event on that document inserts the file again.
C10_RemoveThenRefocus ==
    [][/\ \A p \in Paths :
            (RemoveFileCommand(p) /\ currentActiveFile = p) => currentActiveFile' = Undefined
       /\ \A p \in Paths :
            (/\ OnDidChangeActiveTextEditor(FileEditor(p))
             /\ lastOp.op = "removeFile" /\ lastOp.res = "removedTracked"
             /\ lastOp.arg = p) =>
                p \in PathsOf(attachedFiles')]_vars

\* C10 (amended): removing the tracked path clears the tracked identity, and the next
\* focus-change event on that document, handled while the autoAttachFile setting is
\* on, inserts the file again and tracks it.
C10_RemoveThenAutoAttach ==
    [][/\ \A p \in Paths :
            (RemoveFileCommand(p) /\ currentActiveFile = p) => currentActiveFile' = Undefined
       /\ \A p \in Paths :
            (/\ OnDidChangeActiveTextEditor(FileEditor(p))
             /\ autoAttachFile
             /\ lastOp.op = "removeFile" /\ lastOp.res = "removedTracked"
             /\ lastOp.arg = p) =>
                /\ p \notin PathsOf(attachedFiles)
                /\ p \in PathsOf(attachedFiles')
                /\ currentActiveFile' = p]_vars

\* C10 witness: the tracked file was removed and the focus change on the same document
\* that followed has attached it again.
C10_Witness ==
    /\ lastOp.op = "focus" /\ lastOp.res = "attached" /\ lastOp.after = "removedTracked"
    /\ currentActiveFile = lastOp.arg
    /\ lastOp.arg \in PathsOf(attachedFiles)


\* C11: removeFile(path) and removeImage(name) are idempotent.  A removal leaves no entry
\* with that path (name) and never leaves that path tracked, so a second removal meets
\* the store of the absent case; a removal of a path (name) with no entry leaves the
\* files, the images and the tracked identity as they were; and no removal throws, its
\* updateAttachments post goes to an open panel.
C11_RemovalIdempotent ==
    [][ /\ \A p \in Paths :
             RemoveFileCommand(p) =>
                 /\ p \notin PathsOf(attachedFiles')
                 /\ currentActiveFile' # p
                 /\ p \notin PathsOf(attachedFiles) => UNCHANGED storeVars
                 /\ PanelAt = "open"
        /\ \A p \in ImagePaths :
             RemoveImageCommand(Basename(p)) =>
                 /\ Basename(p) \notin NamesOf(attachedImages')
                 /\ Basename(p) \notin NamesOf(attachedImages) => UNCHANGED storeVars
                 /\ PanelAt = "open" ]_vars

\* a file path was removed twice in a row from a store that holds other files and
\* images and tracks a document
C11_Witness ==
    /\ lastOp.op = "removeFile"
    /\ lastOp.after = "repeat"
    /\ attachedFiles # <<>>
    /\ attachedImages # <<>>
    /\ currentActiveFile # Undefined

(***************************************************************************)
(* Properties of the API client and of the chat submit.                    *)
(***************************************************************************)
\* C12: every failure of the API client during a chat submit (no key, 401, 429, 403, any
\* other exception) becomes exactly one receiveError message carrying the error text and
\* is never thrown out of the sendMessage handler.  With no panel left to post to
\* (chatPanel undefined) the message has no receiver; in every other case the run must
\* end with its receiveError posted and nothing thrown.
C12_FailureBecomesOneError ==
    (lastSend # None /\ lastSend.outcome # "ok") =>
        /\ lastSend.delivery # "threw"
        /\ lastSend.panelAt # "none" =>
              /\ lastSend.delivery = "posted"
              /\ lastReply.command = "receiveError"
              /\ lastReply.text = lastSend.error

\* C13: at every entry point that calls the API client (the chat submit, explainCode,
\* optimizeCode, addComments, debugCode) a failure of the API client is caught and shown
\* to the user: a failed command ends in showErrorMessage, a failed chat submit in a
\* posted receiveError, and none ends in an unhandled promise rejection.
C13_EveryFailureShown ==
    /\ (lastPrompt # None /\ lastPrompt.outcome # "ok") =>
           lastPrompt.shown = "showErrorMessage"
    /\ (lastSend # None /\ lastSend.outcome # "ok") =>
           lastSend.delivery = "posted"

\* C14: with no credential set, send fails with the configuration error and issues no
\* network request: a chat submit ends at once with that error and nothing in flight
\* changes, and a command of the editor leaves no request in flight either.
C14_NoKeyNoRequest ==
    [][ /\ \A text \in UserTexts, m \in ModelIds :
             (apiKey = "" /\ SendMessageCommand(text, m)) =>
                 /\ inflight' = inflight
                 /\ lastSend'.outcome = "ConfigurationError"
                 /\ lastSend'.requests = 0
                 /\ lastSend'.error = ConfigurationErrorText
        /\ \A cmd \in PromptCommands :
             (apiKey = "" /\ PromptCommand(cmd, TRUE, "x = 1")) =>
                 /\ prompts' = prompts
                 /\ lastPrompt'.outcome = "ConfigurationError"
                 /\ lastPrompt'.text = ConfigurationErrorText ]_vars

\* a chat submit without a key has ended with the configuration error, nothing in flight
C14_Witness ==
    /\ apiKey = ""
    /\ lastSend # None
    /\ lastSend.outcome = "ConfigurationError"
    /\ lastSend.requests = 0
    /\ inflight = <<>>
    /\ prompts = <<>>

\* the kind of failure an Error of sendMessage stands for; the code tells the kinds
\* apart by the message alone
ErrorKind(error) ==
    CASE error = ConfigurationErrorText -> "ConfigurationError"
      [] error = <<"Invalid API key. Please check your Anthropic API key.">> -> "AuthError"
      [] error = <<"Rate limit exceeded. Please try again later.">> -> "ThrottledError"
      [] error = <<"Access denied. You may need a paid plan to use this model.">> ->
             "PlanRequiredError"
      [] Len(error) = 2 /\ error[1] = "API Error: " -> "TransportError"
      [] OTHER -> "none"

C16_NoRetry ==
    [][ /\ \A text \in UserTexts, m \in ModelIds :
             SendMessageCommand(text, m) =>
                 \/ inflight' = inflight
                 \/ inflight' = Append(inflight, Request(text, m)) /\ Request(text, m).requests = 1
        /\ \A i \in 1..MaxInFlight, outcome \in Outcomes :
             SendResolve(i, outcome) =>
                 /\ inflight[i].requests = 1
                 /\ inflight' = RemoveAt(inflight, i)
                 /\ lastSend'.requests = 1
                 /\ lastSend'.outcome = outcome ]_vars

\* a request failed with status 429 and its run ended after that one request, leaving
\* nothing in flight
C16_Witness ==
    /\ lastSend # None
    /\ lastSend.outcome = "429"
    /\ lastSend.requests = 1
    /\ lastSend.error = <<"Rate limit exceeded. Please try again later.">>
    /\ inflight = <<>>

\* C17: checkApiKeyAccess returns the full catalog, 9 models, only when its probe request
\* was made with the key set at the call and succeeded; with no key, with a 401 and with
\* every other failure it returns exactly the free models, 2 of them, and no paid one.
\* The list the panel is given is the list returned.
C17_ProbeResult ==
    /\ Len(availableModels) = 9
    /\ lastProbe # None =>
          /\ lastProbe.models = availableModels <=>
                 (lastProbe.key # "" /\ lastProbe.outcome = "ok")
          /\ ~(lastProbe.key # "" /\ lastProbe.outcome = "ok") =>
                 /\ lastProbe.models = FreeModels(availableModels)
                 /\ Len(lastProbe.models) = 2
                 /\ \A i \in 1..Len(lastProbe.models) : ~lastProbe.models[i].isPaid
          /\ lastProbe.delivery = "posted" => panelModels.models = lastProbe.models

\* a probe made with a key was rejected with status 401 and the panel was given the two
\* free models
C17_Witness ==
    /\ lastProbe # None
    /\ lastProbe.key # ""
    /\ lastProbe.outcome = "401"
    /\ lastProbe.delivery = "posted"
    /\ Len(panelModels.models) = 2

C19_OverlappingSubmits ==
    /\ [](\A text \in OverlapTexts, m \in ModelIds :
             (ListenerRegistered /\ ~KeyMissing(apiKey) /\ Len(inflight) < MaxInFlight) =>
                 ENABLED SendMessageCommand(text, m))
    /\ [](Len(inflight) >= 2 =>
             ENABLED SendResolve(1, "ok") /\ ENABLED SendResolve(2, "ok"))
    /\ [][ /\ \A text \in OverlapTexts, m \in ModelIds :
                (SendMessageCommand(text, m) /\ ~KeyMissing(apiKey)) =>
                    /\ Len(inflight') = Len(inflight) + 1
                    /\ \A j \in 1..Len(inflight) : inflight'[j] = inflight[j]
                    /\ inflight'[Len(inflight')].text = text
           /\ \A i \in 1..MaxInFlight, outcome \in Outcomes :
                SendResolve(i, outcome) =>
                    /\ inflight' = RemoveAt(inflight, i)
                    /\ lastSend'.text = inflight[i].text
                    /\ lastSend'.delivery = "posted" =>
                          lastReply'.text = IF outcome = "ok" THEN ResponseText(inflight[i])
                                            ELSE ErrorText(outcome) ]_vars

\* of two requests in flight the later one was answered first, with its own response,
\* and the earlier one is still in flight
C19_Witness ==
    /\ lastSend # None
    /\ lastSend.pos = 2
    /\ lastSend.outcome = "ok"
    /\ lastSend.delivery = "posted"
    /\ lastReply.text = <<"response to ", lastSend.text>>
    /\ Len(inflight) = 1
    /\ inflight[1].text # lastSend.text

\* C20 as stated: every sendMessage command handled is answered by exactly one
\* outbound message (receiveMessage or receiveError) once its network call has completed
\* or failed: no handleChatMessage run ends without its message posted.
C20_EveryCommandAnswered ==
    lastSend # None => lastSend.delivery = "posted"

\* C20 amended: every sendMessage command handled comes to its end once its network call
\* completes or fails, and it is answered by exactly one outbound message (receiveMessage
\* for a response, receiveError for a failure) if and only if chatPanel then refers to an
\* open panel; with chatPanel undefined nothing is posted, and with chatPanel left on a
\* disposed panel the post throws.
C20_AnsweredWhilePanelOpen ==
    /\ \A text \in OverlapTexts :
          InFlight(text) ~> (~InFlight(text) /\ lastSend # None /\ lastSend.text = text)
    /\ [](lastSend # None =>
             /\ lastSend.delivery = "posted" <=> lastSend.panelAt = "open"
             /\ lastSend.delivery = "dropped" <=> lastSend.panelAt = "none"
             /\ lastSend.delivery = "posted" =>
                    /\ lastReply.command =
                           IF lastSend.outcome = "ok" THEN "receiveMessage" ELSE "receiveError"
                    /\ lastReply.text =
                           IF lastSend.outcome = "ok" THEN <<"response to ", lastSend.text>>
                           ELSE lastSend.error)

\* a request failed with status 429 while its panel was open and was answered by a
\* receiveError message
C20_Witness ==
    /\ lastSend # None
    /\ lastSend.outcome = "429"
    /\ lastSend.panelAt = "open"
    /\ lastSend.delivery = "posted"
    /\ lastReply.command = "receiveError"
    /\ lastReply.text = lastSend.error

(***************************************************************************)
(* Properties of the composition of a chat request.                        *)
(***************************************************************************)
\* the text of a content: the string, or the text of its first block
TextOf(content) == IF content.kind = "string" THEN content.text ELSE content.blocks[1].text

\* the pieces of the template string of line 453, one block
BlockPieces == 12

\* C21: with no file and no image attached, the turn handleChatMessage composes has the
\* submitted text as its content, unchanged, as a plain string and not as a block list.
C21_ComposeIdentity ==
    \A i \in 1..Len(inflight) :
        (inflight[i].files = <<>> /\ inflight[i].images = <<>>) =>
            WireMessages(inflight[i]) =
                <<[role |-> "user",
                   content |-> [kind |-> "string", text |-> <<inflight[i].text>>]]>>

\* a text was submitted from a store with no attachment and went out as it was
C21_Witness ==
    /\ Len(inflight) = 1
    /\ inflight[1].files = <<>>
    /\ inflight[1].images = <<>>
    /\ WireMessages(inflight[1])[1].content.text = <<"fix">>

\* C22: with N >= 1 images attached the content is a list of exactly N + 1 blocks: block
\* 0 is the text block, and blocks 1..N are image blocks that carry the payload and the
\* mime type of the images in the order the images were attached.
C22_ImageBlocks ==
    \A i \in 1..Len(inflight) :
        LET r == inflight[i]
            content == WireMessages(r)[1].content
            N == Len(r.images)
        IN  N >= 1 =>
                /\ content.kind = "blocks"
                /\ Len(content.blocks) = N + 1
                /\ content.blocks[1].type = "text"
                /\ \A k \in 1..N :
                      content.blocks[k + 1] =
                          [type |-> "image",
                           source |-> [type |-> "base64",
                                       media_type |-> r.images[k].mediaType,
                                       data |-> r.images[k].data]]

\* a request went out with three image blocks after its text block, for images of two
\* kinds attached in the order png, jpg, png
C22_Witness ==
    /\ Len(inflight) = 1
    /\ Len(inflight[1].images) = 3
    /\ Len(WireMessages(inflight[1])[1].content.blocks) = 4
    /\ WireMessages(inflight[1])[1].content.blocks[2].source.media_type = "image/png"
    /\ WireMessages(inflight[1])[1].content.blocks[3].source.media_type = "image/jpeg"
    /\ WireMessages(inflight[1])[1].content.blocks[4].source.media_type = "image/png"

\* C23: handleChatMessage appends to the submitted text one labeled fenced code block per
\* attached file, tagged with the language of the file and in attachment order, whether
\* or not images are attached; file text occurs only in the text (the text block when
\* there are images) and image payloads occur only in image blocks.
C23_FileBlocksInText ==
    \A i \in 1..Len(inflight) :
        LET r == inflight[i]
            content == WireMessages(r)[1].content
            pieces == TextOf(content)
            N == Len(r.files)
        IN  /\ content.kind = IF r.images = <<>> THEN "string" ELSE "blocks"
            /\ pieces[1] = r.text
            /\ Len(pieces) = IF N = 0 THEN 1 ELSE 2 + BlockPieces * N
            /\ \A k \in 1..N :
                  LET b == 2 + BlockPieces * (k - 1)
                  IN  /\ pieces[b + 2] = r.files[k].name
                      /\ pieces[b + 4] = r.files[k].language
                      /\ pieces[b + 6] = Fence
                      /\ pieces[b + 7] = r.files[k].language
                      /\ pieces[b + 9] = r.files[k].content
                      /\ pieces[b + 11] = Fence
            /\ \A k \in 1..Len(r.images) :
                  /\ \A j \in 1..Len(pieces) : pieces[j] # r.images[k].data
                  /\ DOMAIN content.blocks[k + 1] = {"type", "source"}
                  /\ DOMAIN content.blocks[k + 1].source = {"type", "media_type", "data"}
                  /\ \A f \in 1..N : content.blocks[k + 1].source.data # r.files[f].content

\* the text "explain" went out from a store holding a.py with content print(1) and an
\* image: the text ends with the block labeled a.py, tagged python, containing print(1)
C23_Witness ==
    /\ Len(inflight) = 1
    /\ inflight[1].text = "explain"
    /\ Len(inflight[1].files) = 1
    /\ inflight[1].images # <<>>
    /\ LET pieces == TextOf(WireMessages(inflight[1])[1].content)
       IN  /\ Len(pieces) = 2 + BlockPieces
           /\ pieces[4] = "a.py"
           /\ pieces[9] = "python"
           /\ pieces[11] = "print(1)"

\* the fixed pieces of the text handleChatMessage composes (lines 450 and 453)
TemplateLiterals == {"\n\n**Attached Files:**\n", "\n**", "** (", "):\n", Fence, "\n"}

\* C24: every chat request is a fresh single-turn request.  The message list of a submit
\* holds exactly one turn, a user turn; its text is made of the submitted text, the
\* fixed pieces of the template and the names, languages and contents of the files now
\* in the store; its image blocks are those of the images now in the store; so nothing
\* of an earlier submit (its text, its response, an attachment since removed or
\* replaced) is in it.
C24_FreshSingleTurn ==
    [][ \A text \in OverlapTexts, m \in ModelIds :
          (SendMessageCommand(text, m) /\ ~KeyMissing(apiKey)) =>
              LET msgs == WireMessages(inflight'[Len(inflight')])
                  content == msgs[1].content
                  pieces == TextOf(content)
              IN  /\ Len(msgs) = 1
                  /\ msgs[1].role = "user"
                  /\ pieces[1] = text
                  /\ \A j \in 2..Len(pieces) :
                        pieces[j] \in TemplateLiterals
                                      \cup {attachedFiles[k].name : k \in 1..Len(attachedFiles)}
                                      \cup {attachedFiles[k].language : k \in 1..Len(attachedFiles)}
                                      \cup {attachedFiles[k].content : k \in 1..Len(attachedFiles)}
                  /\ content.kind = "blocks" =>
                        /\ Len(content.blocks) = Len(attachedImages) + 1
                        /\ \A k \in 1..Len(attachedImages) :
                              content.blocks[k + 1].source.data = attachedImages[k].data
                  /\ content.kind = "string" => attachedImages = <<>> ]_vars

\* the text "fix" is in flight after "explain" was answered; the store of the earlier
\* submit held a file and an image that the store of this submit no longer holds
C24_Witness ==
    /\ Len(inflight) = 1
    /\ inflight[1].text = "fix"
    /\ served # None
    /\ served.text = "explain"
    /\ lastReply.command = "receiveMessage"
    /\ served.images # <<>>
    /\ inflight[1].images = <<>>
    /\ served.files # <<>>
    /\ PathsOf(served.files) \cap PathsOf(inflight[1].files) = {}
    /\ Len(WireMessages(inflight[1])) = 1

\* the file list files with the contents c, and the image list images with the payloads d
WithContents(files, c) == [k \in 1..Len(files) |-> [files[k] EXCEPT !.content = c[k]]]
WithPayloads(images, d) == [k \in 1..Len(images) |-> [images[k] EXCEPT !.data = d[k]]]

\* payloads an image can have
Payloads == {DiskBase64(p) : p \in ImagePaths}

\* C25: the updateAttachments message carries only the names and paths of the files and
\* the names of the images.  Whenever one is posted, every store that differs from the
\* store at that moment only in file contents or image payloads gives the same message,
\* and the entries of the message have no other field.
C25_SnapshotHidesContent ==
    [][ lastAttachments' # lastAttachments =>
          /\ \A c \in [1..Len(attachedFiles') -> Texts],
                d \in [1..Len(attachedImages') -> Payloads] :
                /\ lastAttachments'.files =
                       Snapshot(WithContents(attachedFiles', c),
                                WithPayloads(attachedImages', d)).files
                /\ lastAttachments'.images =
                       Snapshot(WithContents(attachedFiles', c),
                                WithPayloads(attachedImages', d)).images
          /\ \A k \in 1..Len(lastAttachments'.files) :
                DOMAIN lastAttachments'.files[k] = {"name", "path"}
          /\ \A k \in 1..Len(lastAttachments'.images) :
                DOMAIN lastAttachments'.images[k] = {"name"} ]_vars

\* an updateAttachments message was posted for a store holding a file with content and
\* an image with a payload
C25_Witness ==
    /\ lastAttachments # None
    /\ Len(lastAttachments.files) = Len(attachedFiles)
    /\ Len(lastAttachments.images) = Len(attachedImages)
    /\ \E k \in 1..Len(attachedFiles) :
          attachedFiles[k].content # "" /\ lastAttachments.files[k].path = attachedFiles[k].path
    /\ \E k \in 1..Len(attachedImages) :
          attachedImages[k].data # "" /\ lastAttachments.images[k].name = attachedImages[k].name

\* what the user is shown at the end of the handler run o: the showWarningMessage of
\* line 514 or 537, the showErrorMessage of line 527 or 566
Notification(o) ==
    CASE o.res = "AlreadyAttached" -> [kind |-> "warning", text |-> <<"File already attached">>]
      [] o.res = "LimitExceeded" ->
             [kind |-> "warning", text |-> <<"Maximum ", maxImages, " images allowed">>]
      [] o.res = "readFailed" /\ o.op = "attachFile" ->
             [kind |-> "error", text |-> <<"Failed to read file">>]
      [] o.res = "readFailed" /\ o.op = "attachImage" ->
             [kind |-> "error", text |-> <<"Failed to read image">>]
      [] OTHER -> [kind |-> "none", text |-> <<>>]

\* C26: a rejected attachment is resolved locally.  The attachFile of a path already
\* attached and the attachImage command on a store at the maximum issue no network
\* request, leave the file list, the image list and the tracked identity unchanged,
\* post nothing to the panel, and end in a warning, not in a receiveError.
C26_RejectionIsLocal ==
    [][ /\ \A p \in Paths :
             (FileDialogPick(p) /\ p \in PathsOf(attachedFiles)) =>
                 /\ UNCHANGED <<storeVars, netVars, lastAttachments>>
                 /\ lastOp'.res = "AlreadyAttached"
                 /\ Notification(lastOp').kind = "warning"
        /\ (AttachImageCommand /\ Len(attachedImages) >= maxImages) =>
                 /\ UNCHANGED <<storeVars, netVars, dialogVars, lastAttachments>>
                 /\ lastOp'.res = "LimitExceeded"
                 /\ Notification(lastOp').kind = "warning" ]_vars

\* an attachFile was turned down as already attached while the store holds two files
\* and images
C26_Witness ==
    /\ lastOp.op = "attachFile"
    /\ lastOp.res = "AlreadyAttached"
    /\ Len(attachedFiles) = 2
    /\ attachedImages # <<>>
    /\ lastReply = None
    /\ inflight = <<>>

\* C27: in every reachable state of the store no two attached images have the same name.
C27_UniqueImageNames ==
    \A i, j \in 1..Len(attachedImages) :
        attachedImages[i].name = attachedImages[j].name => i = j

\* C28: whenever the tracked identity (currentActiveFile) is defined the store has a
\* file entry with that path; the tracked identity changes only in a focus change that
\* reaches attachCurrentFile, which sets it to the focused document, and in the removal
\* of exactly the tracked path, which clears it.
C28_TrackedIdentity ==
    [][/\ currentActiveFile' # Undefined => currentActiveFile' \in PathsOf(attachedFiles')
       /\ currentActiveFile' # currentActiveFile =>
             \/ /\ currentActiveFile' \in Paths
                /\ OnDidChangeActiveTextEditor(FileEditor(currentActiveFile'))
             \/ /\ currentActiveFile' = Undefined
                /\ RemoveFileCommand(currentActiveFile)]_vars

\* the tracked entry stays while another file is attached by hand and removed again, and
\* the removal of the tracked path then clears the tracked identity
C28_Witness ==
    /\ lastOp.op = "removeFile"
    /\ lastOp.res = "removedTracked"
    /\ currentActiveFile = Undefined
    /\ attachedFiles # <<>>

\* C29: once openChat has posted its initial updateAttachments and while that panel is
\* open, the most recently posted updateAttachments message went to that panel and
\* lists exactly the file names and paths and the image names of the store, in store
\* order, between any two handler steps.
C29_WebviewInSync ==
    panelState = "ready" =>
        /\ lastAttachments # None
        /\ lastAttachments.command = "updateAttachments"
        /\ lastAttachments.panel = chatPanel
        /\ lastAttachments.files =
               [i \in 1..Len(attachedFiles) |->
                   [name |-> attachedFiles[i].name, path |-> attachedFiles[i].path]]
        /\ lastAttachments.images =
               [i \in 1..Len(attachedImages) |-> [name |-> attachedImages[i].name]]

\* the tracked file was removed from a store of a file and an image while the panel
\* was open, and the webview was told
C29_Witness ==
    /\ panelState = "ready"
    /\ lastOp.op = "removeFile"
    /\ lastOp.res = "removedTracked"
    /\ attachedFiles = <<>>
    /\ Len(attachedImages) = 1
    /\ lastAttachments.files = <<>>
    /\ Len(lastAttachments.images) = 1

\* C30: after the chat panel is closed the panel reference is cleared, also when the
\* panel is closed while openChat awaits its probe, so that the next openChat creates a
\* new panel: no state has a closed panel (or none) and a panel reference.
C30_ClosedPanelForgotten ==
    panelState \in {"none", "disposed"} => chatPanel = 0

(***************************************************************************)
(* Properties of the chat panel, of deliveries and of the configuration.   *)
(***************************************************************************)
\* C31: at most one chat panel exists at any time: an openChat called while a panel is
\* referenced, also while an earlier openChat awaits its probe, only reveals that panel;
\* it creates no panel, issues no probe and leaves the panel as it is (no HTML, no
\* listener is set again).
C31_OnePanel ==
    [][/\ Cardinality(openPanels') <= 1
       /\ (OpenChat /\ chatPanel # 0) =>
             /\ lastOpenChat' \in {"revealed", "revealThrew"}
             /\ UNCHANGED <<chatPanel, panelState, panelsCreated, openPanels, openChatPc,
                            probes, panelModels, lastProbe, lastAttachments>>]_vars

\* openChat was called again while the first call awaits its probe: there is still one
\* panel and one probe
C31_Witness ==
    /\ lastOpenChat = "revealed"
    /\ openChatPc = "probe"
    /\ panelState = "loading"
    /\ panelsCreated = 1
    /\ openPanels = {1}
    /\ Len(probes) = 1

\* C32: the response or the error of a submit is delivered only to the chat panel the
\* submit was sent from: when that panel was closed before the request ended, the reply
\* is dropped and is not posted to a panel opened later.
C32_ReplyToSendingPanel ==
    [][\A i \in 1..MaxInFlight, outcome \in Outcomes :
          (i <= Len(inflight) /\ SendResolve(i, outcome) /\ lastSend'.delivery = "posted") =>
              /\ lastReply'.panel = inflight[i].panel
              /\ chatView'.panel = inflight[i].panel]_vars

\* C33: once every probe in flight has resolved, the model list most recently posted to
\* the open panel by updateModels is the result of a probe made with the current
\* credential: a probe started before a change of the credential never overwrites the
\* list of the probe made after it.
C33_ListOfCurrentCredential ==
    (/\ probes = <<>>
     /\ PanelAt = "open"
     /\ panelModels.command = "updateModels"
     /\ panelModels.panel = chatPanel
     /\ lastProbe.command = "probe"
     /\ lastProbe.delivery = "posted"
     /\ lastProbe.caller # "openChat") => lastProbe.key = apiKey

\* the credential, the default model id and the token budget of the API client
clientConfig == [apiKey |-> apiKey, model |-> model, maxTokens |-> maxTokens]

\* C34: the credential, the default model id and the token budget of the API client
\* change only when updateConfig runs (in the key changer or on a configuration-change
\* event), which loads them from the settings; every send passes the values the client
\* holds at the call; and a reload leaves the requests in flight as they were sent.
C34_ConfigFrame ==
    [][/\ clientConfig' # clientConfig =>
             /\ OnDidChangeConfiguration \/ \E newKey \in ApiKeys : KeyEntered(newKey)
             /\ clientConfig' = settings'
             /\ UNCHANGED <<inflight, prompts>>
       /\ Len(inflight') > Len(inflight) =>
             /\ clientConfig' = clientConfig
             /\ inflight'[Len(inflight')].key = apiKey
             /\ inflight'[Len(inflight')].max_tokens = maxTokens
       /\ Len(prompts') > Len(prompts) =>
             /\ clientConfig' = clientConfig
             /\ prompts'[Len(prompts')].key = apiKey
             /\ prompts'[Len(prompts')].model = model
             /\ prompts'[Len(prompts')].max_tokens = maxTokens]_vars

\* updateConfig loaded a new token budget and a new default model while a chat request
\* and an explain request sent with the former ones were in flight
C34_Witness ==
    /\ Len(inflight) = 1
    /\ Len(prompts) = 1
    /\ maxTokens = 4096
    /\ model = "claude-3-haiku-20240307"
    /\ inflight[1].max_tokens = 200000
    /\ prompts[1].max_tokens = 200000
    /\ prompts[1].model = "claude-3-5-haiku-20241022"

\* C35: while the autoAttachFile setting is false a focus-change event leaves the file
\* list, the image list and the tracked identity unchanged and posts no
\* updateAttachments; so does a focus change to no editor, whatever the setting.
C35_FocusIgnored ==
    [][\A editor \in Editors :
          (OnDidChangeActiveTextEditor(editor) /\ (~autoAttachFile \/ editor = NoEditor)) =>
              /\ UNCHANGED <<attachedFiles, attachedImages, currentActiveFile, lastAttachments>>
              /\ lastOp'.res = "ignored"]_vars

\* with the setting off and the panel open, the focus moved to a file document other than
\* the tracked one and the store was left alone
C35_Witness ==
    /\ ~autoAttachFile
    /\ lastOp.op = "focus"
    /\ lastOp.res = "ignored"
    /\ lastOp.arg \in Paths
    /\ currentActiveFile \in Paths
    /\ currentActiveFile # lastOp.arg
    /\ lastOp.arg \notin PathsOf(attachedFiles)
    /\ panelState = "ready"

\* C36: explainCode, optimizeCode, addComments and debugCode issue a request only when
\* there is an active editor with a non-empty selection; with no active editor or with an
\* empty selection they show an error message and issue no request.
C36_SelectionRequired ==
    [][\A cmd \in PromptCommands, hasEditor \in BOOLEAN, selectedText \in Selections :
          PromptCommand(cmd, hasEditor, selectedText) =>
              /\ prompts' # prompts => (hasEditor /\ selectedText # "")
              /\ ~hasEditor =>
                    /\ prompts' = prompts
                    /\ lastPrompt'.shown = "showErrorMessage"
                    /\ lastPrompt'.text = <<"No active editor found">>
              /\ (hasEditor /\ selectedText = "") =>
                    /\ prompts' = prompts
                    /\ lastPrompt'.shown = "showErrorMessage"
                    /\ lastPrompt'.text = <<"No code selected">>]_vars

\* with a key set and no request in flight, a command was run on an empty selection: the
\* error was shown and there is still no request
C36_Witness ==
    /\ apiKey # ""
    /\ lastPrompt.command \in PromptCommands
    /\ lastPrompt.outcome = "noSelection"
    /\ lastPrompt.shown = "showErrorMessage"
    /\ prompts = <<>>

\* C37: the file text a submit sends for an auto-attached document is the text captured
\* when the document was auto-attached: attachCurrentFile stores the text the document
\* has then, neither an edit nor a focus change to the tracked document changes the
\* stored entry, and a submit sends the stored text, not the text the document has now.
C37_TextAsCaptured ==
    [][/\ \A p \in Paths :
             (OnDidChangeActiveTextEditor(FileEditor(p)) /\ lastOp'.res = "attached") =>
                 /\ attachedFiles'[Len(attachedFiles')].path = p
                 /\ attachedFiles'[Len(attachedFiles')].content = docText[p]
       /\ \A p \in Paths :
             (EditDocument(p) \/ (OnDidChangeActiveTextEditor(FileEditor(p))
                                     /\ currentActiveFile = p)) =>
                 UNCHANGED <<attachedFiles, currentActiveFile>>
       /\ Len(inflight') > Len(inflight) =>
             \A k \in 1..Len(attachedFiles) :
                 LET f == attachedFiles[k]
                     pieces == TextOf(WireMessages(inflight'[Len(inflight')])[1].content)
                 IN  f.auto =>
                        /\ \E j \in 1..Len(pieces) : pieces[j] = f.content
                        /\ docText[f.path] # f.content =>
                              \A j \in 1..Len(pieces) : pieces[j] # docText[f.path]]_vars

\* a request is in flight for a submit made when the tracked document read print(2): it
\* carries print(1), the text the document had when it was auto-attached
C37_Witness ==
    /\ Len(inflight) = 1
    /\ Len(inflight[1].files) = 1
    /\ inflight[1].files[1].auto
    /\ inflight[1].files[1].path = currentActiveFile
    /\ inflight[1].files[1].content = "print(1)"
    /\ inflight[1].docs[inflight[1].files[1].path] = "print(2)"
    /\ \E j \in 1..Len(TextOf(WireMessages(inflight[1])[1].content)) :
          TextOf(WireMessages(inflight[1])[1].content)[j] = "print(1)"

\* C38: the model name the chat view shows with an assistant response is the name of the
\* model the request of that response was sent with, also when the selection was changed
\* or another submit was made while the request was in flight.
C38_ShownModelIsSentModel ==
    [][\A i \in 1..MaxInFlight :
          (/\ i <= Len(inflight)
           /\ SendResolve(i, "ok")
           /\ lastSend'.delivery = "posted"
           /\ chatView'.command = "addMessage") =>
              chatView'.model = OptionText(inflight[i].model)]_vars
====
